---------------------------- MODULE Spec2Model ----------------------------
(***************************************************************************)
(* A model of the svarascala tonal engine: the emotional compatibility      *)
(* graphs of WesternModes and NavarasaMap with their breadth-first          *)
(* suggest_transition_path, the Camelot wheel of WesternMusic, the          *)
(* equal-tempered frequency calculator and the 22-shruti calculator of      *)
(* IndianMusic.                                                             *)
(*                                                                          *)
(* Python strings that the code slices, concatenates or parses (note        *)
(* names, key names, Camelot notations, scale labels) are sequences of      *)
(* one-character strings; names that are only compared (modes, rasas,       *)
(* scale types, solfege syllables) are plain strings.                       *)
(***************************************************************************)
EXTENDS Integers, Sequences, FiniteSets, TLC

VARIABLES
    reference_a4,   \* WesternMusic.reference_a4, set by the constructor
    reference_sa,   \* IndianMusic.reference_sa, set by the constructor
    key_to_camelot, \* WesternMusic.key_to_camelot, filled by the constructor
    call,           \* the operation in progress or last completed, with its arguments
    ret,            \* what that operation returned or raised
    pc,             \* "idle", "loop" (inside the while loop of the search), "done"
    visited,        \* local `visited` of suggest_transition_path
    queue           \* local `queue` of suggest_transition_path

vars == <<reference_a4, reference_sa, key_to_camelot, call, ret, pc, visited, queue>>

(***************************************************************************)
(* Bounds of the model.                                                     *)
(***************************************************************************)
\* max_steps ranges over -1..MaxSteps
MaxSteps == 5
\* octaves range over (4 - OctaveSpan)..(4 + OctaveSpan)
OctaveSpan == 5
\* wheel numbers range over 0..(12 + WheelMargin), shruti numbers over
\* (1 - ShrutiMargin)..(22 + ShrutiMargin)
WheelMargin == 2
ShrutiMargin == 3

(***************************************************************************)
(* Results of operations.                                                   *)
(***************************************************************************)
NoCall == [op |-> "none"]
Pending == [kind |-> "pending"]
ReturnNone == [kind |-> "None"]
Raise(exc) == [kind |-> exc]
ReturnPath(p) == [kind |-> "path", path |-> p]

\* an exception raised with a message
RaiseMessage(exc, message) == [kind |-> exc, message |-> message]

\* an exception whose message ends with ', '.join(...) of a collection of
\* names: message is the text as far as the code fixes it, listed the names
\* the message enumerates
RaiseListing(exc, message, names) ==
    [kind |-> exc, message |-> message, listed |-> names]

\* separator.join(list)
RECURSIVE Join(_, _)
Join(separator, list) ==
    IF list = <<>> THEN ""
    ELSE IF Len(list) = 1 THEN list[1]
    ELSE list[1] \o separator \o Join(separator, Tail(list))

\* the characters of a number or a note, as the text an f-string inserts
RECURSIVE Text(_)
Text(chars) == IF chars = <<>> THEN "" ELSE Head(chars) \o Text(Tail(chars))

(***************************************************************************)
(* The emotional compatibility graphs.                                      *)
(***************************************************************************)
Graphs == {"WesternModes", "NavarasaMap"}

modal_emotions ==
    [Ionian     |-> [primary |-> "Joy", character |-> "Happy, stable, resolved",
                     energy_level |-> 8, emotional_intensity |-> 7],
     Dorian     |-> [primary |-> "Serious",
                     character |-> "Contemplative, balanced, sophisticated",
                     energy_level |-> 5, emotional_intensity |-> 6],
     Phrygian   |-> [primary |-> "Tension", character |-> "Exotic, dark, intense",
                     energy_level |-> 6, emotional_intensity |-> 8],
     Lydian     |-> [primary |-> "Wonder",
                     character |-> "Bright, dreamlike, transcendent",
                     energy_level |-> 7, emotional_intensity |-> 6],
     Mixolydian |-> [primary |-> "Playful",
                     character |-> "Bluesy, restless, adventurous",
                     energy_level |-> 9, emotional_intensity |-> 8],
     Aeolian    |-> [primary |-> "Sadness",
                     character |-> "Melancholic, emotional, natural",
                     energy_level |-> 4, emotional_intensity |-> 9],
     Locrian    |-> [primary |-> "Instability",
                     character |-> "Anxious, unstable, dissonant",
                     energy_level |-> 7, emotional_intensity |-> 10]]

modes_compatible_transitions_without_dorian_phrygian ==
    [Ionian     |-> <<"Mixolydian", "Lydian", "Dorian">>,
     Dorian     |-> <<"Aeolian", "Mixolydian", "Ionian">>,
     Phrygian   |-> <<"Aeolian", "Dorian", "Locrian">>,
     Lydian     |-> <<"Ionian", "Mixolydian", "Dorian", "Aeolian">>,
     Mixolydian |-> <<"Ionian", "Dorian", "Lydian", "Aeolian">>,
     Aeolian    |-> <<"Dorian", "Phrygian", "Mixolydian", "Lydian">>,
     Locrian    |-> <<"Phrygian">>]


modes_compatible_transitions ==
    [Ionian     |-> <<"Mixolydian", "Lydian", "Dorian">>,
     Dorian     |-> <<"Aeolian", "Phrygian", "Mixolydian", "Ionian">>,
     Phrygian   |-> <<"Aeolian", "Dorian", "Locrian">>,
     Lydian     |-> <<"Ionian", "Mixolydian", "Dorian", "Aeolian">>,
     Mixolydian |-> <<"Ionian", "Dorian", "Lydian", "Aeolian">>,
     Aeolian    |-> <<"Dorian", "Phrygian", "Mixolydian", "Lydian">>,
     Locrian    |-> <<"Phrygian">>]

rasas ==
    [Sringara   |-> "Love/Erotic",
     Haasya     |-> "Comedy/Laughter",
     Karuna     |-> "Compassion/Sympathy",
     Raudra     |-> "Anger/Fury",
     Veera      |-> "Bravery/Heroism",
     Bhayaanaka |-> "Terror/Fear",
     Beebhatsa  |-> "Disgust/Aversion",
     Adbutham   |-> "Wonder/Amazement",
     Saantha    |-> "Peace/Tranquility"]

rasas_compatible_transitions_with_unknown_neighbour ==
    [Sringara   |-> <<"Haasya", "Adbutham", "Saantha", "Karuna">>,
     Haasya     |-> <<"Sringara", "Veera", "Adbutham", "Saantha">>,
     Karuna     |-> <<"Saantha", "Sringara", "Bhayaanaka", "Beebhatsa", "Veera">>,
     Raudra     |-> <<"Veera", "Bhayaanaka", "Beebhatsa">>,
     Veera      |-> <<"Raudra", "Haasya", "Adbutham", "Sringara", "Karuna">>,
     Bhayaanaka |-> <<"Raudra", "Karuna", "Beebhatsa">>,
     Beebhatsa  |-> <<"Bhayaanaka", "Raudra", "Karuna">>,
     Adbutham   |-> <<"Sringara", "Veera", "Haasya", "Shanta">>,
     Saantha    |-> <<"Karuna", "Sringara", "Adbutham", "Haasya">>]


rasas_compatible_transitions ==
    [Sringara   |-> <<"Haasya", "Adbutham", "Saantha", "Karuna">>,
     Haasya     |-> <<"Sringara", "Veera", "Adbutham", "Saantha">>,
     Karuna     |-> <<"Saantha", "Sringara", "Bhayaanaka", "Beebhatsa", "Veera">>,
     Raudra     |-> <<"Veera", "Bhayaanaka", "Beebhatsa">>,
     Veera      |-> <<"Raudra", "Haasya", "Adbutham", "Sringara", "Karuna">>,
     Bhayaanaka |-> <<"Raudra", "Karuna", "Beebhatsa">>,
     Beebhatsa  |-> <<"Bhayaanaka", "Raudra", "Karuna">>,
     Adbutham   |-> <<"Sringara", "Veera", "Haasya", "Saantha">>,
     Saantha    |-> <<"Karuna", "Sringara", "Adbutham", "Haasya">>]

energy_levels ==
    [Sringara |-> 7, Haasya |-> 8, Karuna |-> 3, Raudra |-> 9, Veera |-> 10,
     Bhayaanaka |-> 6, Beebhatsa |-> 5, Adbutham |-> 7, Saantha |-> 1]

\* self.compatible_transitions of the object the search is called on
compatible_transitions(g) ==
    IF g = "WesternModes" THEN modes_compatible_transitions
                          ELSE rasas_compatible_transitions

\* the table whose keys validate the end node: modal_emotions or rasas
EndNodes(g) ==
    IF g = "WesternModes" THEN DOMAIN modal_emotions ELSE DOMAIN rasas

\* the word for a node in the messages of the object: mode or rasa
NodeWord(g) == IF g = "WesternModes" THEN "mode" ELSE "rasa"

\* list(self.compatible_transitions.keys()), in the order of the table
compatible_transitions_keys(g) ==
    IF g = "WesternModes"
       THEN <<"Ionian", "Dorian", "Phrygian", "Lydian", "Mixolydian", "Aeolian",
              "Locrian">>
       ELSE <<"Sringara", "Haasya", "Karuna", "Raudra", "Veera", "Bhayaanaka",
              "Beebhatsa", "Adbutham", "Saantha">>

\* the error of a neighbour query for a name that is no key of the table
UnknownNode(g, name) ==
    RaiseListing("ValueError",
        "Unknown " \o NodeWord(g) \o ": " \o name \o ". Available " \o NodeWord(g)
        \o "s: " \o Join(", ", compatible_transitions_keys(g)),
        {compatible_transitions_keys(g)[i] :
            i \in 1 .. Len(compatible_transitions_keys(g))})

\* node names a caller may pass: the nodes of the graph and a name that is none
NodeArgs(g) ==
    DOMAIN compatible_transitions(g) \cup
        {IF g = "WesternModes" THEN "InvalidMode" ELSE "InvalidRasa"}

(***************************************************************************)
(* suggest_transition_path: the for loop over the adjacency list of         *)
(* `current`, from index i on; a neighbour not yet in visited is marked     *)
(* and the extended path appended to the queue.                             *)
(***************************************************************************)
RECURSIVE ExtendReversed(_, _, _, _, _)
ExtendReversed(path, nbrs, i, vis, q) ==
    IF i > Len(nbrs) THEN [visited |-> vis, queue |-> q]
    ELSE LET n == nbrs[Len(nbrs) + 1 - i] IN
         IF n \notin vis
            THEN ExtendReversed(path, nbrs, i + 1, vis \cup {n}, Append(q, Append(path, n)))
            ELSE ExtendReversed(path, nbrs, i + 1, vis, q)

RECURSIVE ExtendWithoutMarking(_, _, _, _, _)
ExtendWithoutMarking(path, nbrs, i, vis, q) ==
    IF i > Len(nbrs) THEN [visited |-> vis, queue |-> q]
    ELSE LET n == nbrs[i] IN
         IF n \notin vis
            THEN ExtendWithoutMarking(path, nbrs, i + 1, vis, Append(q, Append(path, n)))
            ELSE ExtendWithoutMarking(path, nbrs, i + 1, vis, q)

RECURSIVE Extend(_, _, _, _, _)
Extend(path, nbrs, i, vis, q) ==
    IF i > Len(nbrs) THEN [visited |-> vis, queue |-> q]
    ELSE LET n == nbrs[i] IN
         IF n \notin vis
            THEN Extend(path, nbrs, i + 1, vis \cup {n}, Append(q, Append(path, n)))
            ELSE Extend(path, nbrs, i + 1, vis, q)

SuggestTransitionPathWithoutShortcut(g, start, end, max_steps) ==
    /\ pc = "idle"
    /\ call' = [op |-> "suggest_transition_path", graph |-> g,
                start |-> start, end |-> end, max_steps |-> max_steps]
    /\ IF start \notin DOMAIN compatible_transitions(g)
          THEN /\ ret' = RaiseMessage("ValueError",
                              "Unknown starting " \o NodeWord(g) \o ": " \o start)
               /\ pc' = "done"
               /\ UNCHANGED <<visited, queue>>
       ELSE IF end \notin EndNodes(g)
          THEN /\ ret' = RaiseMessage("ValueError",
                              "Unknown ending " \o NodeWord(g) \o ": " \o end)
               /\ pc' = "done"
               /\ UNCHANGED <<visited, queue>>
       ELSE /\ visited' = {start}
            /\ queue' = << <<start>> >>
            /\ ret' = Pending
            /\ pc' = "loop"
    /\ UNCHANGED <<reference_a4, reference_sa, key_to_camelot>>

SuggestTransitionPathUncheckedEnd(g, start, end, max_steps) ==
    /\ pc = "idle"
    /\ call' = [op |-> "suggest_transition_path", graph |-> g,
                start |-> start, end |-> end, max_steps |-> max_steps]
    /\ IF start \notin DOMAIN compatible_transitions(g)
          THEN /\ ret' = RaiseMessage("ValueError",
                              "Unknown starting " \o NodeWord(g) \o ": " \o start)
               /\ pc' = "done"
               /\ UNCHANGED <<visited, queue>>
       ELSE IF start = end
          THEN /\ ret' = ReturnPath(<<start>>)
               /\ pc' = "done"
               /\ UNCHANGED <<visited, queue>>
       ELSE /\ visited' = {start}
            /\ queue' = << <<start>> >>
            /\ ret' = Pending
            /\ pc' = "loop"
    /\ UNCHANGED <<reference_a4, reference_sa, key_to_camelot>>

\* suggest_transition_path up to the first test of the while loop
SuggestTransitionPath(g, start, end, max_steps) ==
    /\ pc = "idle"
    /\ call' = [op |-> "suggest_transition_path", graph |-> g,
                start |-> start, end |-> end, max_steps |-> max_steps]
    /\ IF start \notin DOMAIN compatible_transitions(g)
          THEN /\ ret' = RaiseMessage("ValueError",
                              "Unknown starting " \o NodeWord(g) \o ": " \o start)
               /\ pc' = "done"
               /\ UNCHANGED <<visited, queue>>
       ELSE IF end \notin EndNodes(g)
          THEN /\ ret' = RaiseMessage("ValueError",
                              "Unknown ending " \o NodeWord(g) \o ": " \o end)
               /\ pc' = "done"
               /\ UNCHANGED <<visited, queue>>
       ELSE IF start = end
          THEN /\ ret' = ReturnPath(<<start>>)
               /\ pc' = "done"
               /\ UNCHANGED <<visited, queue>>
       ELSE /\ visited' = {start}
            /\ queue' = << <<start>> >>
            /\ ret' = Pending
            /\ pc' = "loop"
    /\ UNCHANGED <<reference_a4, reference_sa, key_to_camelot>>

\* one test of `while queue` and, when the queue is not empty, one loop body
BfsIteration ==
    /\ pc = "loop"
    /\ IF queue = <<>>
          THEN /\ ret' = ReturnNone
               /\ pc' = "done"
               /\ UNCHANGED <<visited, queue>>
       ELSE LET path == Head(queue)
                current == path[Len(path)]
            IN  IF current = call.end
                   THEN /\ ret' = ReturnPath(path)
                        /\ pc' = "done"
                        /\ queue' = Tail(queue)
                        /\ UNCHANGED visited
                ELSE IF Len(path) >= call.max_steps
                   THEN /\ queue' = Tail(queue)
                        /\ UNCHANGED <<visited, ret, pc>>
                ELSE IF current \notin DOMAIN compatible_transitions(call.graph)
                   THEN /\ ret' = Raise("KeyError")
                        /\ pc' = "done"
                        /\ queue' = Tail(queue)
                        /\ UNCHANGED visited
                ELSE LET e == Extend(path, compatible_transitions(call.graph)[current],
                                     1, visited, Tail(queue))
                     IN  /\ visited' = e.visited
                         /\ queue' = e.queue
                         /\ UNCHANGED <<ret, pc>>
    /\ UNCHANGED <<reference_a4, reference_sa, key_to_camelot, call>>

\* the caller takes the result; the objects are ready for the next call
Return ==
    /\ pc = "done"
    /\ pc' = "idle"
    /\ call' = NoCall
    /\ ret' = Pending
    /\ visited' = {}
    /\ queue' = <<>>
    /\ UNCHANGED <<reference_a4, reference_sa, key_to_camelot>>

(***************************************************************************)
(* Python values: text, lists and dictionaries.                             *)
(***************************************************************************)
\* str(n) of an integer, as the f-strings format numbers
DigitChars == <<"0", "1", "2", "3", "4", "5", "6", "7", "8", "9">>

RECURSIVE NatToStr(_)
NatToStr(n) ==
    IF n < 10 THEN <<DigitChars[n + 1]>>
    ELSE NatToStr(n \div 10) \o <<DigitChars[(n % 10) + 1]>>

IntToStr(n) == IF n < 0 THEN <<"-">> \o NatToStr(0 - n) ELSE NatToStr(n)

\* int(s): an optional sign followed by at least one digit, anything else raises
IsDigit(c) == \E i \in 1 .. 10 : DigitChars[i] = c

DigitValue(c) == (CHOOSE i \in 1 .. 10 : DigitChars[i] = c) - 1

RECURSIVE DigitsValue(_, _)
DigitsValue(s, acc) ==
    IF s = <<>> THEN acc ELSE DigitsValue(Tail(s), 10 * acc + DigitValue(Head(s)))

ParseInt(s) ==
    LET signed == s # <<>> /\ Head(s) \in {"-", "+"}
        digits == IF signed THEN Tail(s) ELSE s
    IN  IF digits = <<>> \/ \E i \in 1 .. Len(digits) : ~IsDigit(digits[i])
           THEN [ok |-> FALSE, value |-> 0]
           ELSE [ok |-> TRUE,
                 value |-> IF signed /\ Head(s) = "-"
                              THEN 0 - DigitsValue(digits, 0)
                              ELSE DigitsValue(digits, 0)]

\* c.upper() for the letters that callers pass as a wheel letter
Upper(c) ==
    CASE c = "a" -> "A"
      [] c = "b" -> "B"
      [] c = "c" -> "C"
      [] OTHER -> c

\* s.endswith('m') and s[:-1]
EndsWithM(s) == s # <<>> /\ s[Len(s)] = "m"

DropLast(s) == SubSeq(s, 1, Len(s) - 1)

\* x in list, list.index(x) (0-based)
InList(list, x) == \E i \in 1 .. Len(list) : list[i] = x

ListIndex(list, x) ==
    (CHOOSE i \in 1 .. Len(list) :
        list[i] = x /\ \A j \in 1 .. (i - 1) : list[j] # x) - 1

\* a dict is the sequence of its <<key, value>> items in insertion order
DictHas(d, k) == \E i \in 1 .. Len(d) : d[i][1] = k

DictGet(d, k) == d[CHOOSE i \in 1 .. Len(d) : d[i][1] = k][2]

DictSet(d, k, v) ==
    IF DictHas(d, k)
       THEN [i \in 1 .. Len(d) |-> IF d[i][1] = k THEN <<k, v>> ELSE d[i]]
       ELSE Append(d, <<k, v>>)

DictKeys(d) == {d[i][1] : i \in 1 .. Len(d)}

ReturnValue(v) == [kind |-> "value", value |-> v]
ReturnDict(d) == [kind |-> "dict", items |-> d]
ReturnTuple(k, t) == [kind |-> "tuple", key |-> k, scale_type |-> t]

(***************************************************************************)
(* WesternMusic: the tables of the constructor.                             *)
(***************************************************************************)
notes ==
    << <<"C">>, <<"C", "#">>, <<"D">>, <<"D", "#">>, <<"E">>, <<"F">>,
       <<"F", "#">>, <<"G">>, <<"G", "#">>, <<"A">>, <<"A", "#">>, <<"B">> >>

enharmonic_map ==
    << << <<"C", "#">>, <<"D", "b">> >>, << <<"D", "b">>, <<"C", "#">> >>,
       << <<"D", "#">>, <<"E", "b">> >>, << <<"E", "b">>, <<"D", "#">> >>,
       << <<"F", "#">>, <<"G", "b">> >>, << <<"G", "b">>, <<"F", "#">> >>,
       << <<"G", "#">>, <<"A", "b">> >>, << <<"A", "b">>, <<"G", "#">> >>,
       << <<"A", "#">>, <<"B", "b">> >>, << <<"B", "b">>, <<"A", "#">> >> >>

solfege ==
    <<"Do", "Di", "Re", "Ri", "Mi", "Fa", "Fi", "Sol", "Si", "La", "Li", "Ti">>

\* camelot_wheel[letter][number]
camelot_wheel_minor_from_a ==
    [B |-> << <<"A", "b">>, <<"E", "b">>, <<"B", "b">>, <<"F">>, <<"C">>, <<"G">>,
              <<"D">>, <<"A">>, <<"E">>, <<"B">>, <<"F", "#">>, <<"D", "b">> >>,
     A |-> << <<"A", "m">>, <<"E", "m">>, <<"B", "m">>, <<"F", "#", "m">>,
              <<"C", "#", "m">>, <<"G", "#", "m">>, <<"D", "#", "m">>,
              <<"A", "#", "m">>, <<"F", "m">>, <<"C", "m">>, <<"G", "m">>,
              <<"D", "m">> >>]

camelot_wheel ==
    [B |-> << <<"A", "b">>, <<"E", "b">>, <<"B", "b">>, <<"F">>, <<"C">>, <<"G">>,
              <<"D">>, <<"A">>, <<"E">>, <<"B">>, <<"F", "#">>, <<"D", "b">> >>,
     A |-> << <<"F", "m">>, <<"C", "m">>, <<"G", "m">>, <<"D", "m">>, <<"A", "m">>,
              <<"E", "m">>, <<"B", "m">>, <<"F", "#", "m">>, <<"C", "#", "m">>,
              <<"G", "#", "m">>, <<"D", "#", "m">>, <<"A", "#", "m">> >>]

\* the order in which the constructor walks the wheel
WheelLetters == <<"B", "A">>

CamelotWritesForAliasWithoutSuffix(position, number) ==
    LET key == camelot_wheel[position][number]
        notation == IntToStr(number) \o <<position>>
        major_alias ==
            IF position = "B" /\ DictHas(enharmonic_map, key)
               THEN << <<DictGet(enharmonic_map, key), notation>> >>
               ELSE <<>>
        minor_alias ==
            IF position = "A" /\ EndsWithM(key) /\ DictHas(enharmonic_map, DropLast(key))
               THEN << <<DictGet(enharmonic_map, DropLast(key)), notation>> >>
               ELSE <<>>
    IN  << <<key, notation>> >> \o major_alias \o minor_alias

\* the assignments to key_to_camelot made for one entry of the wheel, in order
CamelotWritesFor(position, number) ==
    LET key == camelot_wheel[position][number]
        notation == IntToStr(number) \o <<position>>
        major_alias ==
            IF position = "B" /\ DictHas(enharmonic_map, key)
               THEN << <<DictGet(enharmonic_map, key), notation>> >>
               ELSE <<>>
        minor_alias ==
            IF position = "A" /\ EndsWithM(key) /\ DictHas(enharmonic_map, DropLast(key))
               THEN << <<DictGet(enharmonic_map, DropLast(key)) \o <<"m">>, notation>> >>
               ELSE <<>>
    IN  << <<key, notation>> >> \o major_alias \o minor_alias

\* all assignments to key_to_camelot made by the constructor, in order
RECURSIVE CamelotWritesFrom(_, _)
CamelotWritesFrom(l, number) ==
    IF l > Len(WheelLetters) THEN <<>>
    ELSE IF number > 12 THEN CamelotWritesFrom(l + 1, 1)
    ELSE CamelotWritesFor(WheelLetters[l], number) \o CamelotWritesFrom(l, number + 1)

CamelotWrites == CamelotWritesFrom(1, 1)

RECURSIVE ApplyWrites(_, _, _)
ApplyWrites(d, writes, i) ==
    IF i > Len(writes) THEN d
    ELSE ApplyWrites(DictSet(d, writes[i][1], writes[i][2]), writes, i + 1)

\* key_to_camelot as the constructor leaves it
BuildKeyToCamelot == ApplyWrites(<<>>, CamelotWrites, 1)

(***************************************************************************)
(* WesternMusic.get_frequency.  The frequency reference * 2^(distance/12)   *)
(* is kept exact as the pair of the reference and the semitone distance.    *)
(***************************************************************************)
EqualTempered(reference, distance) == [reference |-> reference, semitones |-> distance]

\* the error of get_frequency: the message joins the notes, in order, and then
\* the keys of enharmonic_map that are no notes, in the order a set iterates,
\* which is not fixed; message is the text up to the last note
UnknownNote(note) ==
    RaiseListing("ValueError",
        "Unknown note: " \o Text(note) \o ". Available notes: "
        \o Join(", ", [i \in 1 .. Len(notes) |-> Text(notes[i])]),
        {Text(notes[i]) : i \in 1 .. Len(notes)} \cup
            {Text(k) : k \in DictKeys(enharmonic_map) \ {notes[i] : i \in 1 .. Len(notes)}})

get_frequency_octave_base_3(note, octave) ==
    LET n == IF ~InList(notes, note) /\ DictHas(enharmonic_map, note)
                THEN DictGet(enharmonic_map, note) ELSE note
    IN  IF ~InList(notes, n) THEN UnknownNote(n)
        ELSE LET note_index == ListIndex(notes, n)
                 a_index == ListIndex(notes, <<"A">>)
                 distance == note_index - a_index + (octave - 3) * 12
             IN  ReturnValue(EqualTempered(reference_a4, distance))

get_frequency_no_enharmonic(note, octave) ==
    IF ~InList(notes, note) THEN UnknownNote(note)
    ELSE LET note_index == ListIndex(notes, note)
             a_index == ListIndex(notes, <<"A">>)
             distance == note_index - a_index + (octave - 4) * 12
         IN  ReturnValue(EqualTempered(reference_a4, distance))

get_frequency(note, octave) ==
    LET n == IF ~InList(notes, note) /\ DictHas(enharmonic_map, note)
                THEN DictGet(enharmonic_map, note) ELSE note
    IN  IF ~InList(notes, n) THEN UnknownNote(n)
        ELSE LET note_index == ListIndex(notes, n)
                 a_index == ListIndex(notes, <<"A">>)
                 distance == note_index - a_index + (octave - 4) * 12
             IN  ReturnValue(EqualTempered(reference_a4, distance))

(***************************************************************************)
(* WesternMusic: the Camelot wheel operations.                              *)
(***************************************************************************)
get_camelot_notation_raising(key, scale_type) ==
    LET suffixed == EndsWithM(key)
        k == IF suffixed THEN DropLast(key) ELSE key
        t == IF suffixed THEN "minor" ELSE scale_type
        key_str == IF t = "minor" THEN k \o <<"m">> ELSE k
    IN  IF t \notin {"major", "minor"} THEN Raise("ValueError")
        ELSE IF DictHas(key_to_camelot, key_str)
           THEN ReturnValue(DictGet(key_to_camelot, key_str))
        ELSE Raise("ValueError")


get_camelot_notation(key, scale_type) ==
    LET suffixed == EndsWithM(key)
        k == IF suffixed THEN DropLast(key) ELSE key
        t == IF suffixed THEN "minor" ELSE scale_type
        key_str == IF t = "minor" THEN k \o <<"m">> ELSE k
    IN  IF DictHas(key_to_camelot, key_str)
           THEN ReturnValue(DictGet(key_to_camelot, key_str))
        ELSE IF DictHas(enharmonic_map, k)
           THEN LET enharmonic_key == DictGet(enharmonic_map, k)
                    enharmonic_key_str ==
                        IF t = "minor" THEN enharmonic_key \o <<"m">> ELSE enharmonic_key
                IN  IF DictHas(key_to_camelot, enharmonic_key_str)
                       THEN ReturnValue(DictGet(key_to_camelot, enharmonic_key_str))
                       ELSE ReturnNone
        ELSE ReturnNone

get_key_from_camelot_keep_suffix(camelot_notation) ==
    IF Len(camelot_notation) < 2 THEN Raise("ValueError")
    ELSE LET parsed == ParseInt(DropLast(camelot_notation))
             number == parsed.value
             position == Upper(camelot_notation[Len(camelot_notation)])
         IN  IF ~parsed.ok THEN Raise("ValueError")
             ELSE IF position \notin {"A", "B"} THEN Raise("ValueError")
             ELSE IF number < 1 \/ number > 12 THEN Raise("ValueError")
             ELSE LET key == camelot_wheel[position][number]
                  IN  IF position = "A"
                         THEN ReturnTuple(key, "minor")
                         ELSE ReturnTuple(key, "major")

get_key_from_camelot_case_sensitive(camelot_notation) ==
    IF Len(camelot_notation) < 2 THEN Raise("ValueError")
    ELSE LET parsed == ParseInt(DropLast(camelot_notation))
             number == parsed.value
             position == camelot_notation[Len(camelot_notation)]
         IN  IF ~parsed.ok THEN Raise("ValueError")
             ELSE IF position \notin {"A", "B"} THEN Raise("ValueError")
             ELSE IF number < 1 \/ number > 12 THEN Raise("ValueError")
             ELSE LET key == camelot_wheel[position][number]
                  IN  IF position = "A"
                         THEN ReturnTuple(DropLast(key), "minor")
                         ELSE ReturnTuple(key, "major")

get_key_from_camelot(camelot_notation) ==
    IF Len(camelot_notation) < 2 THEN Raise("ValueError")
    ELSE LET parsed == ParseInt(DropLast(camelot_notation))
             number == parsed.value
             position == Upper(camelot_notation[Len(camelot_notation)])
         IN  IF ~parsed.ok THEN Raise("ValueError")
             ELSE IF position \notin {"A", "B"} THEN Raise("ValueError")
             ELSE IF number < 1 \/ number > 12 THEN Raise("ValueError")
             ELSE LET key == camelot_wheel[position][number]
                  IN  IF position = "A"
                         THEN ReturnTuple(DropLast(key), "minor")
                         ELSE ReturnTuple(key, "major")

\* compatible[notation] = f"{key}{'m' if scale_type == 'minor' else ''}", or the
\* exception of get_key_from_camelot; r is the dictionary so far or an exception
CompatibleEntry(r, notation) ==
    IF r.kind # "dict" THEN r
    ELSE LET k == get_key_from_camelot(notation)
         IN  IF k.kind # "tuple" THEN k
             ELSE ReturnDict(DictSet(r.items, notation,
                      IF k.scale_type = "minor" THEN k.key \o <<"m">> ELSE k.key))

AdjacentNumberNoWrap(number, adj) == number + adj

\* (number + adj) % 12 with 0 replaced by 12
AdjacentNumber(number, adj) ==
    LET adj_number == (number + adj) % 12
    IN  IF adj_number = 0 THEN 12 ELSE adj_number

get_compatible_keys(camelot_notation) ==
    IF Len(camelot_notation) < 2 THEN Raise("ValueError")
    ELSE LET parsed == ParseInt(DropLast(camelot_notation))
             number == parsed.value
             position == Upper(camelot_notation[Len(camelot_notation)])
         IN  IF ~parsed.ok THEN Raise("ValueError")
             ELSE IF position \notin {"A", "B"} THEN Raise("ValueError")
             ELSE IF number < 1 \/ number > 12 THEN Raise("ValueError")
             ELSE LET opposite_position == IF position = "B" THEN "A" ELSE "B"
                      relative_key == IntToStr(number) \o <<opposite_position>>
                      down_key == IntToStr(AdjacentNumber(number, -1)) \o <<position>>
                      up_key == IntToStr(AdjacentNumber(number, 1)) \o <<position>>
                      diagonal_key ==
                          IntToStr(AdjacentNumber(number, 1)) \o <<opposite_position>>
                  IN  CompatibleEntry(
                        CompatibleEntry(
                          CompatibleEntry(
                            CompatibleEntry(ReturnDict(<<>>), relative_key),
                            down_key),
                          up_key),
                        diagonal_key)

(***************************************************************************)
(* WesternMusic.get_scale, WesternModes.get_mode_frequencies and            *)
(* WesternMusic.get_solfege_frequency.                                      *)
(***************************************************************************)
scale_patterns ==
    [major            |-> <<0, 2, 4, 5, 7, 9, 11>>,
     minor            |-> <<0, 2, 3, 5, 7, 8, 10>>,
     minor_harmonic   |-> <<0, 2, 3, 5, 7, 8, 11>>,
     minor_melodic    |-> <<0, 2, 3, 5, 7, 9, 11>>,
     chromatic        |-> <<0, 1, 2, 3, 4, 5, 6, 7, 8, 9, 10, 11>>,
     pentatonic_major |-> <<0, 2, 4, 7, 9>>,
     pentatonic_minor |-> <<0, 3, 5, 7, 10>>,
     blues            |-> <<0, 3, 5, 6, 7, 10>>]

modes_locrian_perfect_fifth ==
    [Ionian     |-> <<0, 2, 4, 5, 7, 9, 11>>,
     Dorian     |-> <<0, 2, 3, 5, 7, 9, 10>>,
     Phrygian   |-> <<0, 1, 3, 5, 7, 8, 10>>,
     Lydian     |-> <<0, 2, 4, 6, 7, 9, 11>>,
     Mixolydian |-> <<0, 2, 4, 5, 7, 9, 10>>,
     Aeolian    |-> <<0, 2, 3, 5, 7, 8, 10>>,
     Locrian    |-> <<0, 1, 3, 5, 7, 8, 10>>]

modes ==
    [Ionian     |-> <<0, 2, 4, 5, 7, 9, 11>>,
     Dorian     |-> <<0, 2, 3, 5, 7, 9, 10>>,
     Phrygian   |-> <<0, 1, 3, 5, 7, 8, 10>>,
     Lydian     |-> <<0, 2, 4, 6, 7, 9, 11>>,
     Mixolydian |-> <<0, 2, 4, 5, 7, 9, 10>>,
     Aeolian    |-> <<0, 2, 3, 5, 7, 8, 10>>,
     Locrian    |-> <<0, 1, 3, 5, 6, 8, 10>>]

\* the loop of get_scale and of get_mode_frequencies from entry i of the pattern
RECURSIVE ScaleLoopNoCarry(_, _, _, _, _)
ScaleLoopNoCarry(pattern, root_index, octave, i, scale) ==
    IF i > Len(pattern) THEN ReturnDict(scale)
    ELSE LET interval == pattern[i]
             note_index == (root_index + interval) % 12
             actual_note == notes[note_index + 1]
             actual_octave == octave
             frequency == get_frequency(actual_note, actual_octave)
         IN  IF frequency.kind # "value" THEN frequency
             ELSE ScaleLoopNoCarry(pattern, root_index, octave, i + 1,
                      DictSet(scale, actual_note \o IntToStr(actual_octave),
                              frequency.value))

RECURSIVE ScaleLoop(_, _, _, _, _)
ScaleLoop(pattern, root_index, octave, i, scale) ==
    IF i > Len(pattern) THEN ReturnDict(scale)
    ELSE LET interval == pattern[i]
             note_index == (root_index + interval) % 12
             actual_note == notes[note_index + 1]
             octave_adjustment == (root_index + interval) \div 12
             actual_octave == octave + octave_adjustment
             frequency == get_frequency(actual_note, actual_octave)
         IN  IF frequency.kind # "value" THEN frequency
             ELSE ScaleLoop(pattern, root_index, octave, i + 1,
                      DictSet(scale, actual_note \o IntToStr(actual_octave),
                              frequency.value))

get_scale(root_note, octave, scale_type) ==
    IF scale_type \notin DOMAIN scale_patterns
       THEN RaiseMessage("ValueError", "Unknown scale type: " \o scale_type)
    ELSE IF ~InList(notes, root_note) THEN Raise("ValueError")
    ELSE ScaleLoop(scale_patterns[scale_type], ListIndex(notes, root_note),
                   octave, 1, <<>>)

\* list(self.modes.keys()), in the order of the table
modes_keys ==
    <<"Ionian", "Dorian", "Phrygian", "Lydian", "Mixolydian", "Aeolian", "Locrian">>

get_mode_intervals(mode_name) ==
    IF mode_name \notin DOMAIN modes
       THEN RaiseListing("ValueError",
                "Unknown mode: " \o mode_name \o ". Available modes: "
                \o Join(", ", modes_keys),
                {modes_keys[i] : i \in 1 .. Len(modes_keys)})
    ELSE ReturnValue(modes[mode_name])

get_mode_frequencies(mode_name, root_note, octave) ==
    LET intervals == get_mode_intervals(mode_name)
    IN  IF intervals.kind # "value" THEN intervals
        ELSE IF ~InList(notes, root_note) THEN Raise("ValueError")
        ELSE ScaleLoop(intervals.value, ListIndex(notes, root_note), octave, 1, <<>>)

get_solfege_frequency(solfege_name, octave, key) ==
    IF ~InList(solfege, solfege_name) THEN Raise("ValueError")
    ELSE IF ~InList(notes, key) THEN Raise("ValueError")
    ELSE LET solfege_index == ListIndex(solfege, solfege_name)
             key_index == ListIndex(notes, key)
             note_index == (key_index + solfege_index) % 12
             actual_note == notes[note_index + 1]
             octave_adjustment == (key_index + solfege_index) \div 12
             actual_octave == octave + octave_adjustment
         IN  get_frequency(actual_note, actual_octave)

(***************************************************************************)
(* IndianMusic.get_shruti_frequency.  A ratio is the pair of its numerator  *)
(* and denominator, and the product reference_sa * ratio is kept exact as   *)
(* a fraction in lowest terms.                                              *)
(***************************************************************************)
shruti_ratios ==
    << <<1, 1>>, <<256, 243>>, <<16, 15>>, <<10, 9>>, <<9, 8>>, <<32, 27>>,
       <<6, 5>>, <<5, 4>>, <<81, 64>>, <<4, 3>>, <<27, 20>>, <<45, 32>>,
       <<729, 512>>, <<3, 2>>, <<128, 81>>, <<8, 5>>, <<5, 3>>, <<27, 16>>,
       <<16, 9>>, <<9, 5>>, <<15, 8>>, <<243, 128>> >>

RECURSIVE Gcd(_, _)
Gcd(a, b) == IF b = 0 THEN a ELSE Gcd(b, a % b)

\* reference * ratio
Scaled(reference, ratio) ==
    LET n == reference * ratio[1]
        d == ratio[2]
        g == Gcd(n, d)
    IN  [num |-> n \div g, den |-> d \div g]

get_shruti_frequency_from_zero(shruti_number) ==
    IF shruti_number < 0 \/ shruti_number > 22 THEN Raise("ValueError")
    ELSE IF shruti_number \notin DOMAIN shruti_ratios THEN Raise("KeyError")
    ELSE ReturnValue(Scaled(reference_sa, shruti_ratios[shruti_number]))

get_shruti_frequency(shruti_number) ==
    IF shruti_number < 1 \/ shruti_number > 22 THEN Raise("ValueError")
    ELSE ReturnValue(Scaled(reference_sa, shruti_ratios[shruti_number]))

(***************************************************************************)
(* IndianMusic: swaras, ragas and the table of all shrutis.  Swara, variant *)
(* and raga names, the labels built from them and the error messages are    *)
(* plain strings.                                                           *)
(***************************************************************************)
\* list(d.keys()), in insertion order
KeyList(d) == [i \in 1 .. Len(d) |-> d[i][1]]

\* Sa and Pa map to a shruti number, the other swaras to a dict of variants
swara_to_shruti ==
    [Sa  |-> 1,
     Re  |-> << <<"komal", 3>>, <<"shuddha", 5>> >>,
     Ga  |-> << <<"komal", 6>>, <<"shuddha", 8>> >>,
     Ma  |-> << <<"shuddha", 10>>, <<"tivra", 13>> >>,
     Pa  |-> 14,
     Dha |-> << <<"komal", 16>>, <<"shuddha", 17>> >>,
     Ni  |-> << <<"komal", 19>>, <<"shuddha", 21>> >>]

ragas ==
    << <<"Bhairav",  << <<"Sa", "shuddha">>, <<"Re", "komal">>, <<"Ga", "shuddha">>,
                        <<"Ma", "shuddha">>, <<"Pa", "shuddha">>, <<"Dha", "komal">>,
                        <<"Ni", "shuddha">> >> >>,
       <<"Yaman",    << <<"Sa", "shuddha">>, <<"Re", "shuddha">>, <<"Ga", "shuddha">>,
                        <<"Ma", "tivra">>, <<"Pa", "shuddha">>, <<"Dha", "shuddha">>,
                        <<"Ni", "shuddha">> >> >>,
       <<"Bhairavi", << <<"Sa", "shuddha">>, <<"Re", "komal">>, <<"Ga", "komal">>,
                        <<"Ma", "shuddha">>, <<"Pa", "shuddha">>, <<"Dha", "komal">>,
                        <<"Ni", "komal">> >> >>,
       <<"Todi",     << <<"Sa", "shuddha">>, <<"Re", "komal">>, <<"Ga", "komal">>,
                        <<"Ma", "tivra">>, <<"Pa", "shuddha">>, <<"Dha", "komal">>,
                        <<"Ni", "komal">> >> >>,
       <<"Kafi",     << <<"Sa", "shuddha">>, <<"Re", "shuddha">>, <<"Ga", "komal">>,
                        <<"Ma", "shuddha">>, <<"Pa", "shuddha">>, <<"Dha", "shuddha">>,
                        <<"Ni", "komal">> >> >> >>

get_swara_frequency_default_variant(swara, variant) ==
    IF swara = "Sa" \/ swara = "Pa"
       THEN get_shruti_frequency(swara_to_shruti[swara])
    ELSE IF swara \notin DOMAIN swara_to_shruti THEN Raise("KeyError")
    ELSE IF ~DictHas(swara_to_shruti[swara], variant)
       THEN get_shruti_frequency(swara_to_shruti[swara][1][2])
    ELSE get_shruti_frequency(DictGet(swara_to_shruti[swara], variant))

get_swara_frequency(swara, variant) ==
    IF swara = "Sa" \/ swara = "Pa"
       THEN get_shruti_frequency(swara_to_shruti[swara])
    ELSE IF swara \notin DOMAIN swara_to_shruti THEN Raise("KeyError")
    ELSE IF ~DictHas(swara_to_shruti[swara], variant)
       THEN RaiseMessage("ValueError",
                "Invalid variant '" \o variant \o "' for " \o swara \o ". Available: "
                \o Join(", ", KeyList(swara_to_shruti[swara])))
    ELSE get_shruti_frequency(DictGet(swara_to_shruti[swara], variant))

get_raga(raga_name) ==
    IF ~DictHas(ragas, raga_name)
       THEN RaiseListing("ValueError",
                "Unknown raga: " \o raga_name \o ". Available ragas: "
                \o Join(", ", KeyList(ragas)),
                DictKeys(ragas))
    ELSE ReturnValue(DictGet(ragas, raga_name))

\* the for loop of calculate_raga_frequencies from index i on
RECURSIVE RagaLoopLabelledBySwara(_, _, _)
RagaLoopLabelledBySwara(swara_specification, i, frequencies) ==
    IF i > Len(swara_specification) THEN ReturnDict(frequencies)
    ELSE LET swara == swara_specification[i][1]
             variant == swara_specification[i][2]
             freq == get_swara_frequency(swara, variant)
         IN  IF freq.kind # "value" THEN freq
             ELSE RagaLoopLabelledBySwara(swara_specification, i + 1,
                      DictSet(frequencies, swara, freq.value))

RECURSIVE RagaLoop(_, _, _)
RagaLoop(swara_specification, i, frequencies) ==
    IF i > Len(swara_specification) THEN ReturnDict(frequencies)
    ELSE LET swara == swara_specification[i][1]
             variant == IF swara = "Sa" \/ swara = "Pa" THEN "shuddha"
                        ELSE swara_specification[i][2]
             freq == get_swara_frequency(swara, variant)
         IN  IF freq.kind # "value" THEN freq
             ELSE RagaLoop(swara_specification, i + 1,
                      DictSet(frequencies, swara \o " " \o variant, freq.value))

calculate_raga_frequencies(raga_name) ==
    LET swara_specification == get_raga(raga_name) IN
    IF swara_specification.kind # "value" THEN swara_specification
    ELSE RagaLoop(swara_specification.value, 1, <<>>)

\* the for loop of get_all_shrutis over range(i, stop)
RECURSIVE ShrutiLoop(_, _, _)
ShrutiLoop(i, stop, frequencies) ==
    IF i >= stop THEN ReturnDict(frequencies)
    ELSE LET freq == get_shruti_frequency(i) IN
         IF freq.kind # "value" THEN freq
         ELSE ShrutiLoop(i + 1, stop,
                  DictSet(frequencies, "Shruti " \o Text(IntToStr(i)), freq.value))

get_all_shrutis_range_to_22 == ShrutiLoop(1, 22, <<>>)

get_all_shrutis == ShrutiLoop(1, 23, <<>>)

(***************************************************************************)
(* WesternModes.get_compatible_modes and NavarasaMap.get_compatible_rasas.  *)
(* The percentage abs((target - source) / source * 100) is kept as the      *)
(* fraction numerator / denominator until it is formatted.                  *)
(***************************************************************************)
modal_instruments ==
    [Ionian     |-> <<"Piano", "Trumpet", "Violin", "Orchestra">>,
     Dorian     |-> <<"Guitar", "Piano", "Saxophone", "Clarinet">>,
     Phrygian   |-> <<"Flamenco guitar", "Oud", "Sitar", "Oboe">>,
     Lydian     |-> <<"Harp", "Vibraphone", "Flute", "Synthesizer">>,
     Mixolydian |-> <<"Electric guitar", "Fiddle", "Bagpipes", "Banjo">>,
     Aeolian    |-> <<"Cello", "Piano", "Violin", "Guitar">>,
     Locrian    |-> <<"Percussion", "Prepared piano", "Distorted guitar", "Synthesizer">>]

rasa_ragas ==
    [Sringara   |-> <<"Yaman", "Behag", "Hameer", "Tilak Kamod", "Desh">>,
     Haasya     |-> <<"Durga", "Pahadi", "Jog", "Nat Kamod", "Bahar">>,
     Karuna     |-> <<"Bhairavi", "Malkauns", "Bageshri", "Todi", "Bilaskhani Todi">>,
     Raudra     |-> <<"Bhairav", "Marwa", "Chandrakauns", "Shree", "Hindol">>,
     Veera      |-> <<"Bilawal", "Darbari", "Jaijaiwanti", "Maand", "Kedar">>,
     Bhayaanaka |-> <<"Shree", "Purvi", "Gauri", "Lalit", "Vrindavani Sarang">>,
     Beebhatsa  |-> <<"Todi", "Komal Rishabh Asavari", "Bhimpalasi", "Jogiya", "Vibhas">>,
     Adbutham   |-> <<"Darbari", "Miyan Ki Malhar", "Champakali", "Madhuvanti",
                      "Gaud Sarang">>,
     Saantha    |-> <<"Bhimpalasi", "Jaunpuri", "Ahir Bhairav", "Bairagi", "Pahadi">>]

\* abs(x)
Abs(x) == IF x < 0 THEN 0 - x ELSE x

\* f"{numerator / denominator:.1f}" for a quotient that is not negative: the
\* quotient rounded to the nearest tenth.  A quotient halfway between two
\* tenths needs a denominator that is a multiple of 16 when the numerator is
\* a multiple of 100, and no energy level is that large.
FormatOneDecimal(numerator, denominator) ==
    LET tenths == (20 * numerator + denominator) \div (2 * denominator)
    IN  Text(NatToStr(tenths \div 10)) \o "." \o Text(NatToStr(tenths % 10))

\* the for loop of get_compatible_modes from index i on
RECURSIVE ModesLoop(_, _, _, _)
ModesLoop(mode_name, targets, i, transitions) ==
    IF i > Len(targets) THEN ReturnDict(transitions)
    ELSE LET target_mode == targets[i] IN
         IF mode_name \notin DOMAIN modal_emotions
               \/ target_mode \notin DOMAIN modal_emotions
               \/ target_mode \notin DOMAIN modal_instruments
            THEN Raise("KeyError")
         ELSE LET source_energy == modal_emotions[mode_name].energy_level
                  target_energy == modal_emotions[target_mode].energy_level
                  source_intensity == modal_emotions[mode_name].emotional_intensity
                  target_intensity == modal_emotions[target_mode].emotional_intensity
                  energy_type ==
                      IF target_energy > source_energy THEN "Energy boost"
                      ELSE IF target_energy < source_energy THEN "Energy reduction"
                      ELSE "Energy maintenance"
                  intensity_type ==
                      IF target_intensity > source_intensity THEN "Intensity increase"
                      ELSE IF target_intensity < source_intensity
                         THEN "Intensity decrease"
                      ELSE "Intensity maintenance"
              IN  IF source_energy = 0 THEN Raise("ZeroDivisionError")
                  ELSE ModesLoop(mode_name, targets, i + 1,
                         DictSet(transitions, target_mode,
                           [primary_emotion |-> modal_emotions[target_mode].primary,
                            character |-> modal_emotions[target_mode].character,
                            energy_transition |-> energy_type,
                            intensity_transition |-> intensity_type,
                            energy_difference |->
                                FormatOneDecimal(
                                    Abs((target_energy - source_energy) * 100),
                                    source_energy) \o "%",
                            energy_level |-> target_energy,
                            emotional_intensity |-> target_intensity,
                            recommended_instruments |-> modal_instruments[target_mode]]))

get_compatible_modes(mode_name) ==
    IF mode_name \notin DOMAIN modes_compatible_transitions
       THEN UnknownNode("WesternModes", mode_name)
    ELSE ModesLoop(mode_name, modes_compatible_transitions[mode_name], 1, <<>>)

RECURSIVE RasasLoopRelativeToTarget(_, _, _, _)
RasasLoopRelativeToTarget(rasa, targets, i, transitions) ==
    IF i > Len(targets) THEN ReturnDict(transitions)
    ELSE LET target_rasa == targets[i] IN
         IF rasa \notin DOMAIN energy_levels
               \/ target_rasa \notin DOMAIN energy_levels
               \/ target_rasa \notin DOMAIN rasas
               \/ target_rasa \notin DOMAIN rasa_ragas
            THEN Raise("KeyError")
         ELSE LET current_energy == energy_levels[rasa]
                  target_energy == energy_levels[target_rasa]
                  transition_type ==
                      IF target_energy > current_energy THEN "Energy boost"
                      ELSE IF target_energy < current_energy THEN "Energy reduction"
                      ELSE "Energy maintenance"
              IN  IF target_energy = 0 THEN Raise("ZeroDivisionError")
                  ELSE RasasLoopRelativeToTarget(rasa, targets, i + 1,
                         DictSet(transitions, target_rasa,
                           [transition_type |-> transition_type,
                            energy_difference |->
                                FormatOneDecimal(
                                    Abs((target_energy - current_energy) * 100),
                                    target_energy) \o "%",
                            energy_level |-> target_energy,
                            description |-> rasas[target_rasa],
                            recommended_ragas |-> rasa_ragas[target_rasa]]))

\* the for loop of get_compatible_rasas from index i on
RECURSIVE RasasLoop(_, _, _, _)
RasasLoop(rasa, targets, i, transitions) ==
    IF i > Len(targets) THEN ReturnDict(transitions)
    ELSE LET target_rasa == targets[i] IN
         IF rasa \notin DOMAIN energy_levels
               \/ target_rasa \notin DOMAIN energy_levels
               \/ target_rasa \notin DOMAIN rasas
               \/ target_rasa \notin DOMAIN rasa_ragas
            THEN Raise("KeyError")
         ELSE LET current_energy == energy_levels[rasa]
                  target_energy == energy_levels[target_rasa]
                  transition_type ==
                      IF target_energy > current_energy THEN "Energy boost"
                      ELSE IF target_energy < current_energy THEN "Energy reduction"
                      ELSE "Energy maintenance"
              IN  IF current_energy = 0 THEN Raise("ZeroDivisionError")
                  ELSE RasasLoop(rasa, targets, i + 1,
                         DictSet(transitions, target_rasa,
                           [transition_type |-> transition_type,
                            energy_difference |->
                                FormatOneDecimal(
                                    Abs((target_energy - current_energy) * 100),
                                    current_energy) \o "%",
                            energy_level |-> target_energy,
                            description |-> rasas[target_rasa],
                            recommended_ragas |-> rasa_ragas[target_rasa]]))

get_compatible_rasas(rasa) ==
    IF rasa \notin DOMAIN rasas_compatible_transitions
       THEN UnknownNode("NavarasaMap", rasa)
    ELSE RasasLoop(rasa, rasas_compatible_transitions[rasa], 1, <<>>)

(***************************************************************************)
(* NavarasaMap.get_western_equivalent.  The returned dictionary keeps its   *)
(* keys as the code writes them; camelot_notation holds what                *)
(* get_camelot_notation returned, a value or None; the de-duplicated        *)
(* western_correlations, whose order list(set(...)) leaves open, is a set.  *)
(***************************************************************************)
\* the keys of rasa_ragas in insertion order
rasa_ragas_keys ==
    <<"Sringara", "Haasya", "Karuna", "Raudra", "Veera", "Bhayaanaka", "Beebhatsa",
      "Adbutham", "Saantha">>

\* the flat sign of "minor 7b5 chords" is written b
western_correlations ==
    [Sringara   |-> <<"Major", "Lydian", "major 7th chords">>,
     Haasya     |-> <<"Major pentatonic", "Mixolydian", "dominant 7th chords">>,
     Karuna     |-> <<"Minor", "Phrygian", "minor 7th chords">>,
     Raudra     |-> <<"Diminished", "Locrian", "diminished chords">>,
     Veera      |-> <<"Major", "Lydian dominant", "sus4 chords">>,
     Bhayaanaka |-> <<"Half-diminished", "Locrian", "minor 7b5 chords">>,
     Beebhatsa  |-> <<"Altered dominant", "Phrygian dominant", "altered chords">>,
     Adbutham   |-> <<"Augmented", "Whole tone", "augmented chords">>,
     Saantha    |-> <<"Natural minor", "Dorian", "minor 9th chords">>]

raga_thaats ==
    << <<"Yaman", "Kalyan">>, <<"Bhairav", "Bhairav">>, <<"Bhairavi", "Bhairavi">>,
       <<"Todi", "Todi">>, <<"Bilawal", "Bilawal">>, <<"Kafi", "Kafi">>,
       <<"Asavari", "Asavari">>, <<"Marwa", "Marwa">>, <<"Purvi", "Purvi">>,
       <<"Desh", "Khamaj">>, <<"Malkauns", "Bhairavi">>, <<"Darbari", "Asavari">>,
       <<"Bageshri", "Kafi">>, <<"Durga", "Bilawal">>, <<"Jaunpuri", "Asavari">>,
       <<"Bhimpalasi", "Kafi">>, <<"Ahir Bhairav", "Bhairav">>, <<"Pahadi", "Bilawal">>,
       <<"Jog", "Kafi">>, <<"Kedar", "Kalyan">>, <<"Hameer", "Kalyan">>,
       <<"Chandrakauns", "Bhairavi">>, <<"Miyan Ki Malhar", "Kafi">>,
       <<"Tilak Kamod", "Khamaj">>, <<"Shree", "Purvi">>, <<"Bairagi", "Bhairav">>,
       <<"Nat Kamod", "Khamaj">>, <<"Hindol", "Kalyan">>, <<"Jaijaiwanti", "Khamaj">>,
       <<"Lalit", "Marwa">>, <<"Bahar", "Kafi">>, <<"Gauri", "Bhairav">>,
       <<"Vibhas", "Bhairav">>, <<"Maand", "Bilawal">>,
       <<"Vrindavani Sarang", "Kafi">>, <<"Gaud Sarang", "Bilawal">>,
       <<"Jogiya", "Bhairav">>, <<"Komal Rishabh Asavari", "Asavari">>,
       <<"Bilaskhani Todi", "Todi">>, <<"Champakali", "Khamaj">>,
       <<"Madhuvanti", "Todi">> >>

thaat_western_map ==
    [Bilawal  |-> "Major",
     Khamaj   |-> "Mixolydian",
     Kafi     |-> "Dorian",
     Asavari  |-> "Natural Minor",
     Bhairavi |-> "Phrygian",
     Bhairav  |-> "Double Harmonic Major",
     Kalyan   |-> "Lydian",
     Marwa    |-> "Marwa (no Western equivalent)",
     Purvi    |-> "Purvi (no Western equivalent)",
     Todi     |-> "Todi (no Western equivalent)"]

thaat_to_key_map ==
    [Bilawal  |-> <<"C">>,
     Khamaj   |-> <<"G">>,
     Kafi     |-> <<"D">>,
     Asavari  |-> <<"A">>,
     Bhairavi |-> <<"E">>,
     Bhairav  |-> <<"C">>,
     Kalyan   |-> <<"F">>,
     Marwa    |-> <<"C">>,
     Purvi    |-> <<"C">>,
     Todi     |-> <<"D">>]

\* get_raga_by_rasa: the list of the rasa, or an error that names the rasas
get_raga_by_rasa(rasa) ==
    IF ~InList(rasa_ragas_keys, rasa)
       THEN RaiseListing("ValueError",
                "Unknown rasa: " \o rasa \o ". Available rasas: "
                \o Join(", ", rasa_ragas_keys),
                {rasa_ragas_keys[i] : i \in 1 .. Len(rasa_ragas_keys)})
    ELSE ReturnValue(rasa_ragas[rasa])

RECURSIVE RasaFromRagaLoopFirstMatch(_, _, _)
RasaFromRagaLoopFirstMatch(raga, i, matching_rasas) ==
    IF i > Len(rasa_ragas_keys) THEN matching_rasas
    ELSE IF InList(rasa_ragas[rasa_ragas_keys[i]], raga)
            THEN Append(matching_rasas, rasa_ragas_keys[i])
    ELSE RasaFromRagaLoopFirstMatch(raga, i + 1, matching_rasas)

\* the for loop of get_rasa_from_raga from index i on
RECURSIVE RasaFromRagaLoop(_, _, _)
RasaFromRagaLoop(raga, i, matching_rasas) ==
    IF i > Len(rasa_ragas_keys) THEN matching_rasas
    ELSE RasaFromRagaLoop(raga, i + 1,
             IF InList(rasa_ragas[rasa_ragas_keys[i]], raga)
                THEN Append(matching_rasas, rasa_ragas_keys[i])
                ELSE matching_rasas)

get_rasa_from_raga(raga) == RasaFromRagaLoop(raga, 1, <<>>)

get_raga_thaat_by_subscript(raga_name) ==
    IF DictHas(raga_thaats, raga_name)
       THEN ReturnValue(DictGet(raga_thaats, raga_name))
       ELSE Raise("KeyError")

get_raga_thaat(raga_name) ==
    IF DictHas(raga_thaats, raga_name)
       THEN ReturnValue(DictGet(raga_thaats, raga_name))
       ELSE ReturnNone

\* set(western_qualities) after the loop over rasas
WesternQualities(rasa_list) ==
    UNION {IF rasa_list[i] \in DOMAIN western_correlations
              THEN {western_correlations[rasa_list[i]][j] :
                        j \in 1 .. Len(western_correlations[rasa_list[i]])}
              ELSE {} : i \in 1 .. Len(rasa_list)}

camelot_scale_type_dorian_major(western_scale) ==
    IF western_scale \in {"Natural Minor", "Phrygian"} THEN "minor" ELSE "major"

camelot_scale_type(western_scale) ==
    IF western_scale \in {"Natural Minor", "Phrygian", "Dorian"} THEN "minor" ELSE "major"

\* wm = WesternMusic() is a new object; its key_to_camelot is built by the
\* same constructor as the variable key_to_camelot, which no operation changes
get_western_equivalent(raga_name) ==
    LET thaat == get_raga_thaat(raga_name) IN
    IF thaat.kind = "None"
       THEN ReturnDict(<< <<"message",
                            "No thaat information available for " \o raga_name>> >>)
    ELSE IF thaat.kind # "value" THEN thaat
    ELSE IF thaat.value = ""
       THEN ReturnDict(<< <<"message",
                            "No thaat information available for " \o raga_name>> >>)
    ELSE IF thaat.value \notin DOMAIN thaat_western_map
              \/ thaat_western_map[thaat.value] = ""
       THEN ReturnDict(<< <<"message",
                            "No Western equivalent for thaat " \o thaat.value>> >>)
    ELSE LET western_scale == thaat_western_map[thaat.value]
             rasa_list == get_rasa_from_raga(raga_name)
             western_qualities == WesternQualities(rasa_list)
             key == IF thaat.value \in DOMAIN thaat_to_key_map
                       THEN thaat_to_key_map[thaat.value] ELSE <<"C">>
             camelot_notation == get_camelot_notation(key, camelot_scale_type(western_scale))
             compatible_keys ==
                 IF camelot_notation.kind = "value" /\ camelot_notation.value # <<>>
                    THEN get_compatible_keys(camelot_notation.value)
                    ELSE ReturnDict(<<>>)
         IN  IF compatible_keys.kind # "dict" THEN compatible_keys
             ELSE ReturnDict(<< <<"raga", raga_name>>,
                                <<"thaat", thaat.value>>,
                                <<"scale_type", western_scale>>,
                                <<"suggested_key", key>>,
                                <<"camelot_notation", camelot_notation>>,
                                <<"compatible_camelot_keys", compatible_keys.items>>,
                                <<"rasas", rasa_list>>,
                                <<"western_correlations", western_qualities>> >>)

(***************************************************************************)
(* WesternMusic.get_scale_with_camelot: the scale of get_scale with the     *)
(* notation get_camelot_notation gives the root under the same scale type   *)
(* and the compatible keys of that notation.                                *)
(***************************************************************************)
get_scale_with_camelot(root_note, octave, scale_type) ==
    LET scale_freqs == get_scale(root_note, octave, scale_type) IN
    IF scale_freqs.kind # "dict" THEN scale_freqs
    ELSE LET camelot == get_camelot_notation(root_note, scale_type)
             compatible_keys ==
                 IF camelot.kind = "value" /\ camelot.value # <<>>
                    THEN get_compatible_keys(camelot.value)
                    ELSE ReturnDict(<<>>)
         IN  IF compatible_keys.kind # "dict" THEN compatible_keys
             ELSE ReturnDict(<< <<"frequencies", scale_freqs.items>>,
                                <<"camelot_notation", camelot>>,
                                <<"compatible_keys", compatible_keys.items>> >>)


(***************************************************************************)
(* NavarasaMap.compare_raga_to_western_scale.  The labels of the Western    *)
(* scale are taken apart (note[0], note[1:]) and their tail is parsed with  *)
(* int(), so they stay sequences of characters.  wm = WesternMusic() is a   *)
(* new object with the default reference of 440 Hz.                         *)
(***************************************************************************)
\* a result of the variable WesternMusic object, as the new object wm with
\* the default reference_a4 = 440.0 computes it
OfNewWesternMusic(r) ==
    IF r.kind = "value"
       THEN ReturnValue(EqualTempered(440, r.value.semitones))
    ELSE IF r.kind = "dict"
       THEN ReturnDict([i \in 1 .. Len(r.items) |->
                <<r.items[i][1], EqualTempered(440, r.items[i][2].semitones)>>])
    ELSE r

\* d.pop(k) for a key of d
DictPop(d, k) == SelectSeq(d, LAMBDA item : item[1] # k)

\* the first key of d, in insertion order, that starts with the letter; <<>>
\* when the for loop ends without finding one
FirstNote(d, letter) ==
    IF \E i \in 1 .. Len(d) : d[i][1][1] = letter
       THEN d[CHOOSE i \in 1 .. Len(d) :
                /\ d[i][1][1] = letter
                /\ \A j \in 1 .. (i - 1) : d[j][1][1] # letter][1]
       ELSE <<>>

\* wm.get_frequency(name, int(tail)): int() raises ValueError for a tail that
\* is no number
FrequencyAtTail(name, tail) ==
    LET octave == ParseInt(tail)
    IN  IF ~octave.ok
           THEN RaiseMessage("ValueError",
                    "invalid literal for int() with base 10: '" \o Text(tail) \o "'")
           ELSE OfNewWesternMusic(get_frequency(name, octave.value))

\* Handle Lydian (raised 4th)
HandleLydian(western_freqs) ==
    LET note == FirstNote(western_freqs, "F") IN
    IF note = <<>> THEN ReturnDict(western_freqs)
    ELSE LET raised == <<"F", "#">> \o Tail(note) IN
         IF ~DictHas(western_freqs, raised)
            THEN LET frequency == FrequencyAtTail(<<"F", "#">>, Tail(note))
                 IN  IF frequency.kind # "value" THEN frequency
                     ELSE ReturnDict(DictPop(DictSet(western_freqs, raised, frequency.value),
                                             note))
            ELSE ReturnDict(DictPop(western_freqs, note))

\* Handle Mixolydian (lowered 7th)
HandleMixolydian(western_freqs) ==
    LET note == FirstNote(western_freqs, "B") IN
    IF note = <<>> THEN ReturnDict(western_freqs)
    ELSE LET frequency == FrequencyAtTail(<<"B", "b">>, Tail(note))
         IN  IF frequency.kind # "value" THEN frequency
             ELSE ReturnDict(DictSet(DictPop(western_freqs, note),
                                     <<"B", "b">> \o Tail(note), frequency.value))

\* Handle Dorian (raised 6th compared to minor), on the minor scale
HandleDorian(western_freqs) ==
    LET note == FirstNote(western_freqs, "A") IN
    IF note = <<>> THEN ReturnDict(western_freqs)
    ELSE LET frequency == FrequencyAtTail(<<"A">>, Tail(note))
         IN  IF frequency.kind # "value" THEN frequency
             ELSE ReturnDict(DictSet(DictPop(western_freqs, note),
                                     <<"A">> \o Tail(note), frequency.value))

\* western_freqs after the three adjustments, or the exception of one of them
AdjustedScale(scale_name, western_root, octave, western_freqs) ==
    LET lydian == IF scale_name = "Lydian" THEN HandleLydian(western_freqs)
                  ELSE ReturnDict(western_freqs)
        mixolydian == IF lydian.kind # "dict" THEN lydian
                      ELSE IF scale_name = "Mixolydian" THEN HandleMixolydian(lydian.items)
                      ELSE lydian
        minor == OfNewWesternMusic(get_scale(western_root, octave, "minor"))
    IN  IF mixolydian.kind # "dict" THEN mixolydian
        ELSE IF scale_name = "Dorian"
           THEN IF minor.kind # "dict" THEN minor ELSE HandleDorian(minor.items)
        ELSE mixolydian

\* the returned dictionary, from the values of the locals
ComparisonResult(raga_name, western_root, equiv, raga_freqs, western_freqs, camelot, compatible_keys) ==
    IF western_freqs.kind # "dict" THEN western_freqs
    ELSE IF compatible_keys.kind # "dict" THEN compatible_keys
    ELSE ReturnDict(<< <<"raga", raga_name>>,
                       <<"western_scale",
                         Text(western_root) \o " " \o DictGet(equiv, "scale_type")>>,
                       <<"thaat", DictGet(equiv, "thaat")>>,
                       <<"camelot_notation", camelot>>,
                       <<"compatible_camelot_keys", compatible_keys.items>>,
                       <<"raga_frequencies", raga_freqs>>,
                       <<"western_frequencies", western_freqs.items>>,
                       <<"rasas", DictGet(equiv, "rasas")>> >>)

\* the body from the first wm.get_scale on; scale is what that call returned
\* and every local is computed once, as in the code
ComparisonOfScale(raga_name, western_root, octave, equiv, raga_freqs, scale) ==
    IF scale.kind # "dict" THEN scale
    ELSE LET scale_name == DictGet(equiv, "scale_type")
         IN  CHOOSE result \in
                 {ComparisonResult(raga_name, western_root, equiv, raga_freqs,
                                   western_freqs, camelot_notation,
                                   IF camelot_notation.kind = "value"
                                         /\ camelot_notation.value # <<>>
                                      THEN get_compatible_keys(camelot_notation.value)
                                      ELSE ReturnDict(<<>>)) :
                      western_freqs \in
                          {AdjustedScale(scale_name, western_root, octave, scale.items)},
                      camelot_notation \in
                          {get_camelot_notation(western_root,
                               IF scale_name \in {"Natural Minor", "Phrygian", "Dorian"}
                                  THEN "minor" ELSE "major")}} : TRUE

compare_raga_to_western_scale(raga_name, western_root, octave) ==
    LET equiv == get_western_equivalent(raga_name)
        raga_freqs == calculate_raga_frequencies(raga_name)
    IN  IF equiv.kind # "dict" THEN equiv
        ELSE IF raga_freqs.kind # "dict" THEN raga_freqs
        ELSE IF ~DictHas(equiv.items, "scale_type") THEN Raise("KeyError")
        ELSE CHOOSE result \in
                 {ComparisonOfScale(raga_name, western_root, octave, e, r, scale) :
                      e \in {equiv.items},
                      r \in {raga_freqs.items},
                      scale \in
                          {OfNewWesternMusic(get_scale(western_root, octave,
                               IF DictGet(equiv.items, "scale_type") = "Natural Minor"
                                  THEN "minor" ELSE "major"))}} : TRUE

(***************************************************************************)
(* WesternModes.mode_to_rasa_map and get_corresponding_rasa.                *)
(***************************************************************************)
mode_to_rasa_map ==
    [Ionian     |-> <<"Sringara", "Haasya">>,
     Dorian     |-> <<"Adbutham", "Saantha">>,
     Phrygian   |-> <<"Bhayaanaka", "Beebhatsa">>,
     Lydian     |-> <<"Adbutham", "Sringara">>,
     Mixolydian |-> <<"Veera", "Haasya">>,
     Aeolian    |-> <<"Karuna">>,
     Locrian    |-> <<"Raudra", "Bhayaanaka">>]

get_corresponding_rasa(mode_name) ==
    IF mode_name \notin DOMAIN mode_to_rasa_map
       THEN RaiseListing("ValueError",
                "Unknown mode: " \o mode_name \o ". Available modes: "
                \o Join(", ", modes_keys),
                {modes_keys[i] : i \in 1 .. Len(modes_keys)})
    ELSE ReturnValue(mode_to_rasa_map[mode_name])


(***************************************************************************)
(* The arguments callers pass.                                              *)
(***************************************************************************)
FlatNames == { <<"D", "b">>, <<"E", "b">>, <<"G", "b">>, <<"A", "b">>, <<"B", "b">> }

CanonicalNames == {notes[i] : i \in 1 .. Len(notes)}

\* the 17 note spellings and a name that is no note
NoteArgs == CanonicalNames \cup FlatNames \cup { <<"H">> }

OctaveArgs == (4 - OctaveSpan) .. (4 + OctaveSpan)

ScaleTypeArgs == DOMAIN scale_patterns \cup {"dorian"}

ModeArgs == DOMAIN modes \cup {"InvalidMode"}

SolfegeArgs == {solfege[i] : i \in 1 .. Len(solfege)} \cup {"Ut"}

\* keys for get_camelot_notation: notes, and notes with the minor suffix
KeyArgs == NoteArgs \cup {n \o <<"m">> : n \in NoteArgs}

CamelotScaleTypeArgs == {"major", "minor", "dorian"}

\* wheel notations: every number/letter combination, and malformed text
CamelotArgs ==
    {IntToStr(n) \o <<l>> : n \in 0 .. (12 + WheelMargin), l \in {"A", "B", "a", "b", "C"}}
    \cup { <<>>, <<"B">>, <<"5">>, <<"-", "1", "A">>, <<"0", "5", "B">>,
           <<"i", "n", "v", "a", "l", "i", "d">>, <<"B", "5">> }

ShrutiArgs == (1 - ShrutiMargin) .. (22 + ShrutiMargin)

SwaraArgs == DOMAIN swara_to_shruti \cup {"InvalidSwara"}

VariantArgs == {"komal", "shuddha", "tivra", "invalid_variant"}

RagaArgs == DictKeys(ragas) \cup {"NonExistentRaga"}

\* the ragas of the thaat table, a raga known only to rasa_ragas, a name that
\* is no raga and the empty name
ThaatRagaArgs == DictKeys(raga_thaats) \cup {"Behag", "NonExistentRaga", ""}

\* raga names: every raga of a rasa list, the ragas with swara lists (Kafi is
\* in no rasa list) and a name that is no raga
RasaRagaArgs ==
    UNION {{rasa_ragas[r][i] : i \in 1 .. Len(rasa_ragas[r])} : r \in DOMAIN rasa_ragas}
        \cup DictKeys(ragas) \cup {"NonExistentRaga"}


\* ragas for the comparison: the ragas with a swara list, a raga with a thaat
\* but no swara list, and a name that is no raga
CompareRagaArgs == RagaArgs \cup {"Desh"}


(***************************************************************************)
(* The query operations as calls: each runs to completion in one step.      *)
(***************************************************************************)
CompletesCachingNotation(c, r) ==
    /\ pc = "idle"
    /\ call' = c
    /\ ret' = r
    /\ pc' = "done"
    /\ key_to_camelot' =
          IF c.op = "get_camelot_notation" /\ r.kind = "value"
             THEN DictSet(key_to_camelot, c.key, r.value)
             ELSE key_to_camelot
    /\ UNCHANGED <<reference_a4, reference_sa, visited, queue>>


Completes(c, r) ==
    /\ pc = "idle"
    /\ call' = c
    /\ ret' = r
    /\ pc' = "done"
    /\ UNCHANGED <<reference_a4, reference_sa, key_to_camelot, visited, queue>>

GetFrequency(note, octave) ==
    Completes([op |-> "get_frequency", note |-> note, octave |-> octave],
              get_frequency(note, octave))

GetScale(root_note, octave, scale_type) ==
    Completes([op |-> "get_scale", root_note |-> root_note, octave |-> octave,
               scale_type |-> scale_type],
              get_scale(root_note, octave, scale_type))

GetModeFrequencies(mode_name, root_note, octave) ==
    Completes([op |-> "get_mode_frequencies", mode_name |-> mode_name,
               root_note |-> root_note, octave |-> octave],
              get_mode_frequencies(mode_name, root_note, octave))

GetSolfegeFrequency(solfege_name, octave, key) ==
    Completes([op |-> "get_solfege_frequency", solfege_name |-> solfege_name,
               octave |-> octave, key |-> key],
              get_solfege_frequency(solfege_name, octave, key))

GetCamelotNotation(key, scale_type) ==
    Completes([op |-> "get_camelot_notation", key |-> key, scale_type |-> scale_type],
              get_camelot_notation(key, scale_type))

GetKeyFromCamelot(camelot_notation) ==
    Completes([op |-> "get_key_from_camelot", camelot_notation |-> camelot_notation],
              get_key_from_camelot(camelot_notation))

GetCompatibleKeys(camelot_notation) ==
    Completes([op |-> "get_compatible_keys", camelot_notation |-> camelot_notation],
              get_compatible_keys(camelot_notation))

GetShrutiFrequency(shruti_number) ==
    Completes([op |-> "get_shruti_frequency", shruti_number |-> shruti_number],
              get_shruti_frequency(shruti_number))

GetSwaraFrequency(swara, variant) ==
    Completes([op |-> "get_swara_frequency", swara |-> swara, variant |-> variant],
              get_swara_frequency(swara, variant))

CalculateRagaFrequencies(raga_name) ==
    Completes([op |-> "calculate_raga_frequencies", raga_name |-> raga_name],
              calculate_raga_frequencies(raga_name))

GetAllShrutis ==
    Completes([op |-> "get_all_shrutis"], get_all_shrutis)

GetCompatibleModes(mode_name) ==
    Completes([op |-> "get_compatible_modes", mode_name |-> mode_name],
              get_compatible_modes(mode_name))

GetCompatibleRasas(rasa) ==
    Completes([op |-> "get_compatible_rasas", rasa |-> rasa],
              get_compatible_rasas(rasa))

GetWesternEquivalent(raga_name) ==
    Completes([op |-> "get_western_equivalent", raga_name |-> raga_name],
              get_western_equivalent(raga_name))

GetModeIntervals(mode_name) ==
    Completes([op |-> "get_mode_intervals", mode_name |-> mode_name],
              get_mode_intervals(mode_name))

GetRagaByRasa(rasa) ==
    Completes([op |-> "get_raga_by_rasa", rasa |-> rasa], get_raga_by_rasa(rasa))

GetRasaFromRaga(raga) ==
    Completes([op |-> "get_rasa_from_raga", raga |-> raga],
              ReturnValue(get_rasa_from_raga(raga)))

GetRaga(raga_name) ==
    Completes([op |-> "get_raga", raga_name |-> raga_name], get_raga(raga_name))

GetScaleWithCamelot(root_note, octave, scale_type) ==
    Completes([op |-> "get_scale_with_camelot", root_note |-> root_note,
               octave |-> octave, scale_type |-> scale_type],
              get_scale_with_camelot(root_note, octave, scale_type))

CompareRagaToWesternScale(raga_name, western_root, octave) ==
    Completes([op |-> "compare_raga_to_western_scale", raga_name |-> raga_name,
               western_root |-> western_root, octave |-> octave],
              compare_raga_to_western_scale(raga_name, western_root, octave))

GetCorrespondingRasa(mode_name) ==
    Completes([op |-> "get_corresponding_rasa", mode_name |-> mode_name],
              get_corresponding_rasa(mode_name))

(***************************************************************************)
(* Construction and the specification.                                      *)
(***************************************************************************)
ReferencesA4 == {440, 432}
ReferencesSa == {220, 240}

Init ==
    /\ reference_a4 \in ReferencesA4
    /\ reference_sa \in ReferencesSa
    /\ key_to_camelot = BuildKeyToCamelot
    /\ call = NoCall
    /\ ret = Pending
    /\ pc = "idle"
    /\ visited = {}
    /\ queue = <<>>

\* a caller invokes one operation with arguments of its choice
CallSuggestTransitionPath ==
    /\ pc = "idle"
    /\ \E g \in Graphs : \E start \in NodeArgs(g), end \in NodeArgs(g) :
          \E max_steps \in -1 .. MaxSteps :
              SuggestTransitionPath(g, start, end, max_steps)

CallGetFrequency ==
    /\ pc = "idle"
    /\ \E note \in NoteArgs, octave \in OctaveArgs : GetFrequency(note, octave)

CallGetScale ==
    /\ pc = "idle"
    /\ \E root_note \in NoteArgs, octave \in OctaveArgs, scale_type \in ScaleTypeArgs :
          GetScale(root_note, octave, scale_type)

CallGetModeFrequencies ==
    /\ pc = "idle"
    /\ \E mode_name \in ModeArgs, root_note \in NoteArgs, octave \in OctaveArgs :
          GetModeFrequencies(mode_name, root_note, octave)

CallGetSolfegeFrequency ==
    /\ pc = "idle"
    /\ \E solfege_name \in SolfegeArgs, octave \in OctaveArgs, key \in NoteArgs :
          GetSolfegeFrequency(solfege_name, octave, key)

CallGetCamelotNotation ==
    /\ pc = "idle"
    /\ \E key \in KeyArgs, scale_type \in CamelotScaleTypeArgs :
          GetCamelotNotation(key, scale_type)

CallGetKeyFromCamelot ==
    /\ pc = "idle"
    /\ \E camelot_notation \in CamelotArgs : GetKeyFromCamelot(camelot_notation)

CallGetCompatibleKeys ==
    /\ pc = "idle"
    /\ \E camelot_notation \in CamelotArgs : GetCompatibleKeys(camelot_notation)

CallGetShrutiFrequency ==
    /\ pc = "idle"
    /\ \E shruti_number \in ShrutiArgs : GetShrutiFrequency(shruti_number)

CallGetSwaraFrequency ==
    /\ pc = "idle"
    /\ \E swara \in SwaraArgs, variant \in VariantArgs : GetSwaraFrequency(swara, variant)

CallCalculateRagaFrequencies ==
    /\ pc = "idle"
    /\ \E raga_name \in RagaArgs : CalculateRagaFrequencies(raga_name)

CallGetAllShrutis ==
    /\ pc = "idle"
    /\ GetAllShrutis

CallGetCompatibleModes ==
    /\ pc = "idle"
    /\ \E mode_name \in NodeArgs("WesternModes") : GetCompatibleModes(mode_name)

CallGetCompatibleRasas ==
    /\ pc = "idle"
    /\ \E rasa \in NodeArgs("NavarasaMap") : GetCompatibleRasas(rasa)

CallGetWesternEquivalent ==
    /\ pc = "idle"
    /\ \E raga_name \in ThaatRagaArgs : GetWesternEquivalent(raga_name)

CallGetModeIntervals ==
    /\ pc = "idle"
    /\ \E mode_name \in ModeArgs : GetModeIntervals(mode_name)

CallGetRagaByRasa ==
    /\ pc = "idle"
    /\ \E rasa \in NodeArgs("NavarasaMap") : GetRagaByRasa(rasa)

CallGetRasaFromRaga ==
    /\ pc = "idle"
    /\ \E raga \in RasaRagaArgs : GetRasaFromRaga(raga)

CallGetRaga ==
    /\ pc = "idle"
    /\ \E raga_name \in RagaArgs : GetRaga(raga_name)

CallGetScaleWithCamelot ==
    /\ pc = "idle"
    /\ \E root_note \in NoteArgs, octave \in OctaveArgs, scale_type \in ScaleTypeArgs :
           GetScaleWithCamelot(root_note, octave, scale_type)

CallCompareRagaToWesternScale ==
    /\ pc = "idle"
    /\ \E raga_name \in CompareRagaArgs, western_root \in NoteArgs, octave \in OctaveArgs :
           CompareRagaToWesternScale(raga_name, western_root, octave)

CallGetCorrespondingRasa ==
    /\ pc = "idle"
    /\ \E mode_name \in ModeArgs : GetCorrespondingRasa(mode_name)

Next ==
    \/ CallSuggestTransitionPath
    \/ BfsIteration
    \/ CallGetFrequency
    \/ CallGetScale
    \/ CallGetModeFrequencies
    \/ CallGetSolfegeFrequency
    \/ CallGetCamelotNotation
    \/ CallGetKeyFromCamelot
    \/ CallGetCompatibleKeys
    \/ CallGetShrutiFrequency
    \/ CallGetSwaraFrequency
    \/ CallCalculateRagaFrequencies
    \/ CallGetAllShrutis
    \/ CallGetCompatibleModes
    \/ CallGetCompatibleRasas
    \/ CallGetWesternEquivalent
    \/ CallGetModeIntervals
    \/ CallGetRagaByRasa
    \/ CallGetRasaFromRaga
    \/ CallGetRaga
    \/ CallGetScaleWithCamelot
    \/ CallCompareRagaToWesternScale
    \/ CallGetCorrespondingRasa
    \/ Return

Spec == Init /\ [][Next]_vars

(***************************************************************************)
(* Graph notions used to state the properties of the search.                *)
(***************************************************************************)
Successors(g, S) ==
    {n \in DOMAIN compatible_transitions(g) :
        \E m \in S : \E i \in 1 .. Len(compatible_transitions(g)[m]) :
            compatible_transitions(g)[m][i] = n}

\* the nodes joined to s by a directed path of at most k edges
RECURSIVE ReachWithin(_, _, _)
ReachWithin(g, s, k) ==
    IF k <= 0 THEN {s}
    ELSE LET R == ReachWithin(g, s, k - 1) IN R \cup Successors(g, R)

NumNodes(g) == Cardinality(DOMAIN compatible_transitions(g))

Reachable(g, a, b) == b \in ReachWithin(g, a, NumNodes(g))

\* the least number of edges of a directed path from a to b (b reachable from a)
Dist(g, a, b) ==
    CHOOSE k \in 0 .. NumNodes(g) :
        /\ b \in ReachWithin(g, a, k)
        /\ \A j \in 0 .. (k - 1) : b \notin ReachWithin(g, a, j)

IsEdge(g, a, b) ==
    \E i \in 1 .. Len(compatible_transitions(g)[a]) : compatible_transitions(g)[a][i] = b

\* the first shortest path from a to b: at each node, the first neighbour in
\* declaration order that is one edge closer to b
RECURSIVE FirstShortestPath(_, _, _)
FirstShortestPath(g, a, b) ==
    IF a = b THEN <<a>>
    ELSE LET nbrs == compatible_transitions(g)[a]
             closer == {i \in 1 .. Len(nbrs) :
                          /\ Reachable(g, nbrs[i], b)
                          /\ Dist(g, nbrs[i], b) = Dist(g, a, b) - 1}
             first == CHOOSE i \in closer : \A j \in closer : i <= j
         IN  <<a>> \o FirstShortestPath(g, nbrs[first], b)

SearchDone ==
    /\ pc = "done"
    /\ call.op = "suggest_transition_path"

ValidSearch ==
    /\ SearchDone
    /\ call.start \in DOMAIN compatible_transitions(call.graph)
    /\ call.end \in EndNodes(call.graph)

(***************************************************************************)
(* C1: for valid start, valid end # start and max_steps >= 0, the search    *)
(* returns a path if and only if a directed path from start to end with at  *)
(* most max_steps edges exists; it returns None exactly when none exists.   *)
(***************************************************************************)
C1_PathIffWithinMaxStepsEdges ==
    (ValidSearch /\ call.start # call.end /\ call.max_steps >= 0) =>
        /\ ret.kind \in {"path", "None"}
        /\ (ret.kind = "path") <=>
               (call.end \in ReachWithin(call.graph, call.start, call.max_steps))

(***************************************************************************)
(* C2: a returned path starts at start, ends at end, follows declared       *)
(* edges, has the least possible number of edges and is the first of the    *)
(* minimum-edge paths in adjacency-list declaration order.                  *)
(***************************************************************************)
C2_ReturnedPathIsFirstShortest ==
    (ValidSearch /\ ret.kind = "path") =>
        LET p == ret.path
            g == call.graph
        IN  /\ p[1] = call.start
            /\ p[Len(p)] = call.end
            /\ \A i \in 1 .. (Len(p) - 1) : IsEdge(g, p[i], p[i + 1])
            /\ Len(p) - 1 = Dist(g, call.start, call.end)
            /\ p = FirstShortestPath(g, call.start, call.end)

\* Ionian to Aeolian: two-edge paths exist through Mixolydian, Lydian and Dorian
C2_Witness ==
    /\ SearchDone
    /\ call.graph = "WesternModes"
    /\ call.start = "Ionian"
    /\ call.end = "Aeolian"
    /\ ret.kind = "path"
    /\ ret.path = <<"Ionian", "Mixolydian", "Aeolian">>

(***************************************************************************)
(* Musical notions used to state the properties of the Western operations.  *)
(***************************************************************************)
\* the pitch class (semitones above C) of each of the 17 note spellings
PitchClass(name) ==
    CASE name = <<"C">> -> 0
      [] name = <<"C", "#">> \/ name = <<"D", "b">> -> 1
      [] name = <<"D">> -> 2
      [] name = <<"D", "#">> \/ name = <<"E", "b">> -> 3
      [] name = <<"E">> -> 4
      [] name = <<"F">> -> 5
      [] name = <<"F", "#">> \/ name = <<"G", "b">> -> 6
      [] name = <<"G">> -> 7
      [] name = <<"G", "#">> \/ name = <<"A", "b">> -> 8
      [] name = <<"A">> -> 9
      [] name = <<"A", "#">> \/ name = <<"B", "b">> -> 10
      [] name = <<"B">> -> 11

Spellings == CanonicalNames \cup FlatNames

\* the sharp spelling of a flat name
SharpOf(flat) ==
    CASE flat = <<"D", "b">> -> <<"C", "#">>
      [] flat = <<"E", "b">> -> <<"D", "#">>
      [] flat = <<"G", "b">> -> <<"F", "#">>
      [] flat = <<"A", "b">> -> <<"G", "#">>
      [] flat = <<"B", "b">> -> <<"A", "#">>

\* semitones from A4 up to a note of the given pitch class in the given octave
SemitonesFromA4(class, octave) == 12 * (octave - 4) + class - 9

\* twice a frequency: 2 * r * 2^(d/12) = r * 2^((d+12)/12)
Doubled(f) == [f EXCEPT !.semitones = @ + 12]

WheelNumberText ==
    << <<"1">>, <<"2">>, <<"3">>, <<"4">>, <<"5">>, <<"6">>, <<"7">>, <<"8">>,
       <<"9">>, <<"1", "0">>, <<"1", "1">>, <<"1", "2">> >>

WheelPosition(n, l) == WheelNumberText[n] \o <<l>>

WheelPositions == {WheelPosition(n, l) : n \in 1 .. 12, l \in {"A", "B"}}

OtherLetter(l) == IF l = "A" THEN "B" ELSE "A"

\* wheel numbers wrap 12 -> 1 and 1 -> 12
Wrapped(n) == IF n = 0 THEN 12 ELSE IF n = 13 THEN 1 ELSE n

Done(op) == pc = "done" /\ call.op = op

(***************************************************************************)
(* C3: for every wheel position nX, get_compatible_keys returns exactly     *)
(* four entries, keyed by n with the other letter, (n-1)X, (n+1)X and       *)
(* (n+1) with the other letter, numbers wrapping between 12 and 1; each     *)
(* value is the key name get_key_from_camelot gives for that position,      *)
(* with an 'm' suffix for minor.                                            *)
(***************************************************************************)
C3_CompatibleKeysAreTheFourNeighbours ==
    \A n \in 1 .. 12, l \in {"A", "B"} :
        (Done("get_compatible_keys") /\ call.camelot_notation = WheelPosition(n, l)) =>
            /\ ret.kind = "dict"
            /\ Len(ret.items) = 4
            /\ DictKeys(ret.items) =
                   {WheelPosition(n, OtherLetter(l)),
                    WheelPosition(Wrapped(n - 1), l),
                    WheelPosition(Wrapped(n + 1), l),
                    WheelPosition(Wrapped(n + 1), OtherLetter(l))}
            /\ \A i \in 1 .. Len(ret.items) :
                   LET k == get_key_from_camelot(ret.items[i][1])
                   IN  /\ k.kind = "tuple"
                       /\ ret.items[i][2] =
                              IF k.scale_type = "minor" THEN k.key \o <<"m">> ELSE k.key

\* 12B: the numbers 13 and 0 do not appear, 1B and 1A do
C3_Witness ==
    /\ Done("get_compatible_keys")
    /\ call.camelot_notation = <<"1", "2", "B">>
    /\ ret.kind = "dict"
    /\ DictHas(ret.items, <<"1", "B">>)
    /\ DictGet(ret.items, <<"1", "A">>) = <<"F", "m">>

(***************************************************************************)
(* C4: for each of the 17 note spellings and each of major and minor,       *)
(* get_camelot_notation returns a wheel position, and get_key_from_camelot  *)
(* of that position gives the same mode and the key or its enharmonic       *)
(* equivalent.                                                              *)
(***************************************************************************)
C4_CamelotRoundTrip ==
    (/\ Done("get_camelot_notation")
     /\ call.key \in Spellings
     /\ call.scale_type \in {"major", "minor"}) =>
        /\ ret.kind = "value"
        /\ ret.value \in WheelPositions
        /\ LET k == get_key_from_camelot(ret.value)
           IN  /\ k.kind = "tuple"
               /\ k.scale_type = call.scale_type
               /\ k.key \in Spellings
               /\ PitchClass(k.key) = PitchClass(call.key)

\* G# major sits at 1B, which names the key Ab
C4_Witness ==
    /\ Done("get_camelot_notation")
    /\ call.key = <<"G", "#">>
    /\ call.scale_type = "major"
    /\ ret.kind = "value"
    /\ ret.value = <<"1", "B">>
    /\ get_key_from_camelot(ret.value).key = <<"A", "b">>

(***************************************************************************)
(* C5: the 24 wheel positions name 24 different (pitch class, mode) pairs   *)
(* covering the 12 pitch classes in major and in minor; for every position  *)
(* p, get_camelot_notation(get_key_from_camelot(p)) = p; both spellings of  *)
(* a key are registered under the same position; and the constructor never  *)
(* overwrites an entry of key_to_camelot with a different position.         *)
(* Stated of the object on which get_key_from_camelot(p) has returned.      *)
(***************************************************************************)
KeyOfPosition(p) ==
    LET k == get_key_from_camelot(p)
    IN  <<PitchClass(k.key), k.scale_type>>

C5_CamelotIsBijection ==
    (Done("get_key_from_camelot") /\ call.camelot_notation \in WheelPositions) =>
        /\ ret.kind = "tuple"
        /\ get_camelot_notation(ret.key, ret.scale_type) = ReturnValue(call.camelot_notation)
        /\ \A p \in WheelPositions : get_key_from_camelot(p).kind = "tuple"
        /\ {KeyOfPosition(p) : p \in WheelPositions} = (0 .. 11) \X {"major", "minor"}
        /\ \A flat \in FlatNames :
               /\ DictHas(key_to_camelot, flat) /\ DictHas(key_to_camelot, SharpOf(flat))
               /\ DictGet(key_to_camelot, flat) = DictGet(key_to_camelot, SharpOf(flat))
               /\ DictHas(key_to_camelot, flat \o <<"m">>)
               /\ DictHas(key_to_camelot, SharpOf(flat) \o <<"m">>)
               /\ DictGet(key_to_camelot, flat \o <<"m">>) =
                      DictGet(key_to_camelot, SharpOf(flat) \o <<"m">>)
        /\ \A i, j \in 1 .. Len(CamelotWrites) :
               CamelotWrites[i][1] = CamelotWrites[j][1] =>
                   CamelotWrites[i][2] = CamelotWrites[j][2]
        /\ \A i \in 1 .. Len(CamelotWrites) :
               DictGet(key_to_camelot, CamelotWrites[i][1]) = CamelotWrites[i][2]

\* 12B names Db; C# is registered under 12B as well, and A#m and Bbm under 12A
C5_Witness ==
    /\ Done("get_key_from_camelot")
    /\ call.camelot_notation = <<"1", "2", "B">>
    /\ ret.kind = "tuple"
    /\ ret.key = <<"D", "b">>
    /\ DictGet(key_to_camelot, <<"C", "#">>) = <<"1", "2", "B">>
    /\ DictGet(key_to_camelot, <<"B", "b", "m">>) = <<"1", "2", "A">>

PatternLength ==
    [major |-> 7, minor |-> 7, minor_harmonic |-> 7, minor_melodic |-> 7,
     chromatic |-> 12, pentatonic_major |-> 5, pentatonic_minor |-> 5, blues |-> 6]

ExpectedEntry(root, octave, k) ==
    <<notes[((PitchClass(root) + k) % 12) + 1]
          \o IntToStr(octave + ((PitchClass(root) + k) \div 12)),
      EqualTempered(reference_a4, SemitonesFromA4(PitchClass(root), octave) + k)>>

IsScaleOf(result, root, octave, pattern) ==
    /\ result.kind = "dict"
    /\ Len(result.items) = Len(pattern)
    /\ Cardinality(DictKeys(result.items)) = Len(pattern)
    /\ \A i \in 1 .. Len(pattern) :
           result.items[i] = ExpectedEntry(root, octave, pattern[i])

C7_ScaleEntriesCarryOctave ==
    /\ (/\ Done("get_scale")
        /\ call.root_note \in CanonicalNames
        /\ call.scale_type \in DOMAIN scale_patterns) =>
            /\ IsScaleOf(ret, call.root_note, call.octave, scale_patterns[call.scale_type])
            /\ Len(ret.items) = PatternLength[call.scale_type]
    /\ (/\ Done("get_mode_frequencies")
        /\ call.root_note \in CanonicalNames
        /\ call.mode_name \in DOMAIN modes) =>
            /\ IsScaleOf(ret, call.root_note, call.octave, modes[call.mode_name])
            /\ Len(ret.items) = 7
    /\ (/\ Done("get_solfege_frequency")
        /\ call.key \in CanonicalNames
        /\ InList(solfege, call.solfege_name)) =>
            /\ ret.kind = "value"
            /\ ret.value = EqualTempered(reference_a4,
                   SemitonesFromA4(PitchClass(call.key), call.octave)
                       + ListIndex(solfege, call.solfege_name))

\* B major from B4: the second note is C#5, in the next octave
C7_Witness ==
    /\ Done("get_scale")
    /\ call.root_note = <<"B">>
    /\ call.octave = 4
    /\ call.scale_type = "major"
    /\ ret.kind = "dict"
    /\ ret.items[1][1] = <<"B", "4">>
    /\ ret.items[2][1] = <<"C", "#", "5">>
    /\ ret.items[2][2].semitones = 4

(***************************************************************************)
(* C8: get_scale, get_solfege_frequency and get_mode_frequencies called     *)
(* with a flat spelling (Db, Eb, Gb, Ab, Bb) return the same result as      *)
(* with the sharp equivalent.                                               *)
(***************************************************************************)
C8_FlatRootsAreNormalized ==
    /\ (Done("get_scale") /\ call.root_note \in FlatNames) =>
           ret = get_scale(SharpOf(call.root_note), call.octave, call.scale_type)
    /\ (Done("get_mode_frequencies") /\ call.root_note \in FlatNames) =>
           ret = get_mode_frequencies(call.mode_name, SharpOf(call.root_note), call.octave)
    /\ (Done("get_solfege_frequency") /\ call.key \in FlatNames) =>
           ret = get_solfege_frequency(call.solfege_name, call.octave, SharpOf(call.key))

(***************************************************************************)
(* C9: for each of the five sharp/flat pairs and every octave,              *)
(* get_frequency of the flat spelling equals get_frequency of the sharp     *)
(* spelling.                                                                *)
(***************************************************************************)
C9_EnharmonicFrequenciesEqual ==
    (Done("get_frequency") /\ call.note \in FlatNames) =>
        /\ ret.kind = "value"
        /\ ret = get_frequency(SharpOf(call.note), call.octave)

C9_Witness ==
    /\ Done("get_frequency")
    /\ call.note = <<"D", "b">>
    /\ call.octave = 4
    /\ ret.kind = "value"
    /\ ret.value.semitones = -8

(***************************************************************************)
(* C10: get_shruti_frequency(n) is reference_sa * ratio(n) for n in 1..22   *)
(* (the reference itself for n = 1, 3/2 of it for n = 14) and fails with    *)
(* an error, returning no value, for n < 1 or n > 22.                       *)
(***************************************************************************)
C10_ShrutiFrequencyOrError ==
    Done("get_shruti_frequency") =>
        LET n == call.shruti_number
        IN  IF n \in 1 .. 22
               THEN /\ ret.kind = "value"
                    /\ ret.value.num * shruti_ratios[n][2] =
                           reference_sa * shruti_ratios[n][1] * ret.value.den
                    /\ n = 1 => (ret.value.num = reference_sa /\ ret.value.den = 1)
                    /\ n = 14 => 2 * ret.value.num = 3 * reference_sa * ret.value.den
               ELSE ret = Raise("ValueError")

C10_Witness ==
    /\ Done("get_shruti_frequency")
    /\ call.shruti_number = 14
    /\ ret.kind = "value"
    /\ ret.value.num = (3 * reference_sa) \div 2
    /\ ret.value.den = 1

(***************************************************************************)
(* Notions used to state the properties of the IndianMusic operations.      *)
(***************************************************************************)
Swaras == {"Sa", "Re", "Ga", "Ma", "Pa", "Dha", "Ni"}

\* the shruti a swara with a variant stands for; 0 when the swara has no
\* such variant
VariantShruti(swara, variant) ==
    CASE swara = "Sa" -> 1
      [] swara = "Pa" -> 14
      [] swara = "Re"  /\ variant = "komal"   -> 3
      [] swara = "Re"  /\ variant = "shuddha" -> 5
      [] swara = "Ga"  /\ variant = "komal"   -> 6
      [] swara = "Ga"  /\ variant = "shuddha" -> 8
      [] swara = "Ma"  /\ variant = "shuddha" -> 10
      [] swara = "Ma"  /\ variant = "tivra"   -> 13
      [] swara = "Dha" /\ variant = "komal"   -> 16
      [] swara = "Dha" /\ variant = "shuddha" -> 17
      [] swara = "Ni"  /\ variant = "komal"   -> 19
      [] swara = "Ni"  /\ variant = "shuddha" -> 21
      [] OTHER -> 0

\* the variants of a swara as an error message lists them
VariantsText(swara) == IF swara = "Ma" THEN "shuddha, tivra" ELSE "komal, shuddha"

\* the frequency of shruti k: reference_sa times its ratio
ShrutiFrequency(k) == Scaled(reference_sa, shruti_ratios[k])

(***************************************************************************)
(* C11: get_swara_frequency gives Sa the frequency of shruti 1 and Pa that  *)
(* of shruti 14 whatever the variant; for Re, Ga, Ma, Dha and Ni a defined  *)
(* variant gives the frequency of its shruti and an undefined variant       *)
(* raises an error whose message lists the swara's variants; 'shuddha' is   *)
(* valid for every swara.                                                   *)
(***************************************************************************)
C11_SwaraFrequencyOrVariantError ==
    (Done("get_swara_frequency") /\ call.swara \in Swaras) =>
        LET k == VariantShruti(call.swara, call.variant) IN
        /\ k # 0 => /\ ret.kind = "value"
                    /\ ret.value = ShrutiFrequency(k)
        /\ k = 0 => /\ ret.kind = "ValueError"
                    /\ ret.message = "Invalid variant '" \o call.variant \o "' for "
                                     \o call.swara \o ". Available: "
                                     \o VariantsText(call.swara)
        /\ call.swara \in {"Sa", "Pa"} => ret.kind = "value"
        /\ call.variant = "shuddha" => ret.kind = "value"

C11_Witness ==
    /\ Done("get_swara_frequency")
    /\ call.swara = "Ma"
    /\ call.variant = "komal"
    /\ ret.kind = "ValueError"
    /\ ret.message = "Invalid variant 'komal' for Ma. Available: shuddha, tivra"

(***************************************************************************)
(* C12: for each raga of the table, calculate_raga_frequencies returns      *)
(* exactly seven entries in the declared order of the raga's swaras, each   *)
(* labelled '<swara> <variant>' with Sa and Pa always labelled 'shuddha',   *)
(* each valued with get_swara_frequency of that swara and variant, which    *)
(* never fails; an unknown raga name raises an error and no frequencies     *)
(* are returned.                                                            *)
(***************************************************************************)
KnownRagas == {"Bhairav", "Yaman", "Bhairavi", "Todi", "Kafi"}

C12_RagaFrequenciesFollowDeclaration ==
    Done("calculate_raga_frequencies") =>
        IF call.raga_name \in KnownRagas
           THEN LET declared == DictGet(ragas, call.raga_name) IN
                /\ ret.kind = "dict"
                /\ Len(ret.items) = 7
                /\ Len(declared) = 7
                /\ \A i \in 1 .. 7 :
                      LET swara == declared[i][1]
                          variant == IF swara \in {"Sa", "Pa"} THEN "shuddha"
                                     ELSE declared[i][2]
                          freq == get_swara_frequency(swara, variant)
                      IN  /\ ret.items[i][1] = swara \o " " \o variant
                          /\ freq.kind = "value"
                          /\ ret.items[i][2] = freq.value
                          /\ VariantShruti(swara, declared[i][2]) # 0
           ELSE /\ ret.kind = "ValueError"
                /\ "items" \notin DOMAIN ret

C12_Witness ==
    /\ Done("calculate_raga_frequencies")
    /\ call.raga_name = "Yaman"
    /\ ret.kind = "dict"
    /\ ret.items[1] = <<"Sa shuddha", ShrutiFrequency(1)>>
    /\ ret.items[4] = <<"Ma tivra", ShrutiFrequency(13)>>
    /\ ret.items[7] = <<"Ni shuddha", ShrutiFrequency(21)>>

(***************************************************************************)
(* C13: within each letter of the wheel the key at number n+1 (12 wrapping  *)
(* to 1) has its root 7 semitones above the root of the key at n, modulo    *)
(* 12; and the minor key at nA has its root 3 semitones below (9 above,     *)
(* modulo 12) the root of the major key at nB.  Stated of the position on   *)
(* which get_key_from_camelot has returned.                                 *)
(***************************************************************************)
C13_FifthsAndRelativeMinor ==
    (Done("get_key_from_camelot") /\ call.camelot_notation \in WheelPositions) =>
        \A n \in 1 .. 12, l \in {"A", "B"} :
            call.camelot_notation = WheelPosition(n, l) =>
                LET next == get_key_from_camelot(WheelPosition(Wrapped(n + 1), l))
                    minor == get_key_from_camelot(WheelPosition(n, "A"))
                IN  /\ ret.kind = "tuple"
                    /\ next.kind = "tuple"
                    /\ next.scale_type = ret.scale_type
                    /\ PitchClass(next.key) = (PitchClass(ret.key) + 7) % 12
                    /\ l = "B" =>
                          /\ ret.scale_type = "major"
                          /\ minor.kind = "tuple"
                          /\ minor.scale_type = "minor"
                          /\ PitchClass(minor.key) = (PitchClass(ret.key) + 9) % 12
                          /\ (PitchClass(minor.key) + 3) % 12 = PitchClass(ret.key)

C13_Witness ==
    /\ Done("get_key_from_camelot")
    /\ call.camelot_notation = WheelPosition(12, "B")
    /\ ret.key = <<"D", "b">>
    /\ get_key_from_camelot(WheelPosition(1, "B")).key = <<"A", "b">>
    /\ get_key_from_camelot(WheelPosition(12, "A")).key = <<"A", "#">>

(***************************************************************************)
(* C14: the 22 shruti ratios are all at least 1 and below 2 and strictly    *)
(* increasing with the shruti number; get_all_shrutis returns 22            *)
(* frequencies in strictly ascending order, the first equal to the          *)
(* reference Sa and all below twice the reference.                          *)
(***************************************************************************)
\* a < b for ratios <<numerator, denominator>>
RatioLess(a, b) == a[1] * b[2] < b[1] * a[2]

\* f < g for frequencies kept as fractions
FrequencyLess(f, g) == f.num * g.den < g.num * f.den

C14_ShrutisAscendWithinOctave ==
    Done("get_all_shrutis") =>
        /\ Len(shruti_ratios) = 22
        /\ \A n \in 1 .. 22 :
              /\ ~RatioLess(shruti_ratios[n], <<1, 1>>)
              /\ RatioLess(shruti_ratios[n], <<2, 1>>)
        /\ \A n \in 1 .. 21 : RatioLess(shruti_ratios[n], shruti_ratios[n + 1])
        /\ ret.kind = "dict"
        /\ Len(ret.items) = 22
        /\ Cardinality(DictKeys(ret.items)) = 22
        /\ ret.items[1][2] = [num |-> reference_sa, den |-> 1]
        /\ \A n \in 1 .. 21 : FrequencyLess(ret.items[n][2], ret.items[n + 1][2])
        /\ \A n \in 1 .. 22 :
              FrequencyLess(ret.items[n][2], [num |-> 2 * reference_sa, den |-> 1])

C14_Witness ==
    /\ Done("get_all_shrutis")
    /\ ret.kind = "dict"
    /\ ret.items[1][1] = "Shruti 1"
    /\ ret.items[22][1] = "Shruti 22"
    /\ FrequencyLess(ret.items[21][2], ret.items[22][2])
    /\ 128 * ret.items[22][2].num = 243 * reference_sa * ret.items[22][2].den

(***************************************************************************)
(* Notions used to state the properties of the two graph objects.           *)
(***************************************************************************)
ModeNames ==
    {"Ionian", "Dorian", "Phrygian", "Lydian", "Mixolydian", "Aeolian", "Locrian"}

RasaNames ==
    {"Sringara", "Haasya", "Karuna", "Raudra", "Veera", "Bhayaanaka", "Beebhatsa",
     "Adbutham", "Saantha"}

\* the valid nodes of a graph
NodesOf(g) == IF g = "WesternModes" THEN ModeNames ELSE RasaNames

\* no step of the breadth-first search has been taken
NoSearch == visited = {} /\ queue = <<>>

(***************************************************************************)
(* C15: on both graphs, for every valid node X and every max_steps,         *)
(* including 0 and negative values, suggest_transition_path(X, X,           *)
(* max_steps) returns the one-element path [X] without searching.           *)
(***************************************************************************)
C15_SameStartAndEndGivesSingleton ==
    (/\ Done("suggest_transition_path")
     /\ call.start \in NodesOf(call.graph)
     /\ call.end = call.start) =>
        /\ ret.kind = "path"
        /\ ret.path = <<call.start>>
        /\ NoSearch

C15_Witness ==
    /\ Done("suggest_transition_path")
    /\ call.graph = "NavarasaMap"
    /\ call.start = "Saantha"
    /\ call.end = "Saantha"
    /\ call.max_steps = -1
    /\ ret.kind = "path"
    /\ ret.path = <<"Saantha">>
    /\ NoSearch

(***************************************************************************)
(* C16: get_key_from_camelot and get_compatible_keys raise an error and     *)
(* return nothing, not even a partial dictionary, when the notation is      *)
(* empty, shorter than two characters, has a number outside 1..12 or a      *)
(* letter other than A or B; a lowercase letter is accepted and gives the   *)
(* result of the uppercase notation.                                        *)
(***************************************************************************)
CamelotOperations == {"get_key_from_camelot", "get_compatible_keys"}

TooShortNotations == { <<>>, <<"B">>, <<"5">> }

NumberOutOfRangeNotations ==
    {IntToStr(n) \o <<l>> : n \in (0 .. (12 + WheelMargin)) \ (1 .. 12),
                            l \in {"A", "B", "a", "b"}}

OtherLetterNotations == {WheelNumberText[n] \o <<"C">> : n \in 1 .. 12}

LowerOf(l) == IF l = "A" THEN "a" ELSE "b"

\* the result of the operation of the call in progress on another notation
SameOperationOn(notation) ==
    IF call.op = "get_key_from_camelot" THEN get_key_from_camelot(notation)
                                        ELSE get_compatible_keys(notation)

C16_MalformedNotationRaises ==
    (pc = "done" /\ call.op \in CamelotOperations) =>
        /\ call.camelot_notation \in TooShortNotations \cup NumberOutOfRangeNotations
                                     \cup OtherLetterNotations =>
              /\ ret.kind = "ValueError"
              /\ DOMAIN ret = {"kind"}
        /\ \A n \in 1 .. 12, l \in {"A", "B"} :
              call.camelot_notation = WheelNumberText[n] \o <<LowerOf(l)>> =>
                  /\ ret.kind = IF call.op = "get_key_from_camelot" THEN "tuple" ELSE "dict"
                  /\ ret = SameOperationOn(WheelPosition(n, l))
                  /\ call.op = "get_key_from_camelot" =>
                        ret.key \o (IF l = "A" THEN <<"m">> ELSE <<>>)
                            = camelot_wheel[l][n]
                  /\ call.op = "get_compatible_keys" =>
                        DictKeys(ret.items) =
                            {WheelPosition(n, OtherLetter(l)),
                             WheelPosition(Wrapped(n - 1), l),
                             WheelPosition(Wrapped(n + 1), l),
                             WheelPosition(Wrapped(n + 1), OtherLetter(l))}

C16_Witness ==
    /\ Done("get_compatible_keys")
    /\ call.camelot_notation = <<"1", "3", "B">>
    /\ ret.kind = "ValueError"

(***************************************************************************)
(* C17: get_compatible_modes and get_compatible_rasas raise an error for a  *)
(* source that is no node of the graph; suggest_transition_path raises an   *)
(* error for a start or an end that is no node, before any step of the      *)
(* search, even when the start is valid and max_steps is 0.                 *)
(***************************************************************************)
C17_UnknownNodeRaises ==
    /\ (Done("get_compatible_modes") /\ call.mode_name \notin ModeNames) =>
           ret.kind = "ValueError"
    /\ (Done("get_compatible_rasas") /\ call.rasa \notin RasaNames) =>
           ret.kind = "ValueError"
    /\ (/\ call.op = "suggest_transition_path"
        /\ \/ call.start \notin NodesOf(call.graph)
           \/ call.end \notin NodesOf(call.graph)) =>
           /\ pc = "done"
           /\ ret.kind = "ValueError"
           /\ NoSearch

C17_Witness ==
    /\ Done("suggest_transition_path")
    /\ call.graph = "WesternModes"
    /\ call.start = "Ionian"
    /\ call.end = "InvalidMode"
    /\ call.max_steps = 0
    /\ ret.kind = "ValueError"
    /\ NoSearch

(***************************************************************************)
(* C18: for a valid source, get_compatible_modes and get_compatible_rasas   *)
(* return one entry for each node of the source's adjacency list and for    *)
(* no other node; the energy transition of an entry is 'Energy boost'       *)
(* exactly when the target's energy is above the source's, 'Energy          *)
(* reduction' exactly when it is below and 'Energy maintenance' exactly     *)
(* when they are equal; the energy difference is                            *)
(* |target - source| / source * 100, given to one decimal place; and no     *)
(* source has energy 0.                                                     *)
(***************************************************************************)
CompatibleOperations == {"get_compatible_modes", "get_compatible_rasas"}

\* the graph and the source of the call in progress
CallGraph == IF call.op = "get_compatible_modes" THEN "WesternModes" ELSE "NavarasaMap"

CallSource == IF call.op = "get_compatible_modes" THEN call.mode_name ELSE call.rasa

Energy(g, node) ==
    IF g = "WesternModes" THEN modal_emotions[node].energy_level
                          ELSE energy_levels[node]

\* the energy transition label of an entry
TransitionLabel(entry) ==
    IF call.op = "get_compatible_modes" THEN entry.energy_transition
                                        ELSE entry.transition_type

\* difference / source * 100 in tenths of a percent, to the nearest tenth
NearestTenths(difference, source) ==
    LET below == (1000 * difference) \div source
    IN  CHOOSE t \in {below, below + 1} :
            2 * Abs(t * source - 1000 * difference) < source

PercentText(tenths) ==
    Text(NatToStr(tenths \div 10)) \o "." \o Text(NatToStr(tenths % 10)) \o "%"

C18_CompatibleEntriesClassifyEnergy ==
    (pc = "done" /\ call.op \in CompatibleOperations
                 /\ CallSource \in NodesOf(CallGraph)) =>
        LET g == CallGraph
            source == Energy(g, CallSource)
            adjacency == compatible_transitions(g)[CallSource]
        IN  /\ \A node \in NodesOf(g) : Energy(g, node) >= 1
            /\ ret.kind = "dict"
            /\ Len(ret.items) = Len(adjacency)
            /\ DictKeys(ret.items) = {adjacency[i] : i \in 1 .. Len(adjacency)}
            /\ \A i \in 1 .. Len(ret.items) :
                  LET target == Energy(g, ret.items[i][1])
                      entry == ret.items[i][2]
                  IN  /\ TransitionLabel(entry) = "Energy boost" <=> target > source
                      /\ TransitionLabel(entry) = "Energy reduction" <=> target < source
                      /\ TransitionLabel(entry) = "Energy maintenance" <=> target = source
                      /\ entry.energy_level = target
                      /\ entry.energy_difference =
                             PercentText(NearestTenths(Abs(target - source), source))

C18_Witness ==
    /\ Done("get_compatible_rasas")
    /\ call.rasa = "Sringara"
    /\ ret.kind = "dict"
    /\ KeyList(ret.items) = <<"Haasya", "Adbutham", "Saantha", "Karuna">>
    /\ ret.items[1][2].transition_type = "Energy boost"
    /\ ret.items[1][2].energy_difference = "14.3%"
    /\ ret.items[2][2].transition_type = "Energy maintenance"
    /\ ret.items[2][2].energy_difference = "0.0%"
    /\ ret.items[3][2].transition_type = "Energy reduction"
    /\ ret.items[3][2].energy_difference = "85.7%"

(***************************************************************************)
(* Notions used to state the properties of get_western_equivalent.          *)
(***************************************************************************)
\* the ragas that have a thaat entry
ThaatRagas == DictKeys(raga_thaats)

MinorScaleNames == {"Natural Minor", "Phrygian", "Dorian"}

NoEquivalentThaats == {"Marwa", "Purvi", "Todi"}

\* the value the returned dictionary holds under a key
Field(name) == DictGet(ret.items, name)

(***************************************************************************)
(* C19: for every raga with a thaat entry, get_western_equivalent returns   *)
(* the raga's thaat, the scale name thaat_western_map gives the thaat, the  *)
(* key mapped to the thaat, the Camelot notation get_camelot_notation       *)
(* gives that key in minor when the scale name is Natural Minor, Phrygian   *)
(* or Dorian and in major otherwise, which is never None, and the four      *)
(* entries get_compatible_keys gives that notation.                         *)
(***************************************************************************)
C19_WesternEquivalentFollowsTables ==
    (Done("get_western_equivalent") /\ call.raga_name \in ThaatRagas) =>
        LET thaat == DictGet(raga_thaats, call.raga_name)
            mode == IF thaat_western_map[thaat] \in MinorScaleNames
                       THEN "minor" ELSE "major"
        IN  /\ key_to_camelot = BuildKeyToCamelot
            /\ ret.kind = "dict"
            /\ Field("raga") = call.raga_name
            /\ Field("thaat") = thaat
            /\ Field("scale_type") = thaat_western_map[thaat]
            /\ Field("suggested_key") = thaat_to_key_map[thaat]
            /\ Field("camelot_notation") = get_camelot_notation(thaat_to_key_map[thaat], mode)
            /\ Field("camelot_notation").kind = "value"
            /\ Field("camelot_notation").value \in WheelPositions
            /\ LET position == get_key_from_camelot(Field("camelot_notation").value)
               IN  /\ position.key = Field("suggested_key")
                   /\ position.scale_type = mode
            /\ Field("compatible_camelot_keys") =
                   get_compatible_keys(Field("camelot_notation").value).items
            /\ Len(Field("compatible_camelot_keys")) = 4
            /\ Cardinality(DictKeys(Field("compatible_camelot_keys"))) = 4

C19_Witness ==
    /\ Done("get_western_equivalent")
    /\ call.raga_name = "Bageshri"
    /\ ret.kind = "dict"
    /\ Field("thaat") = "Kafi"
    /\ Field("scale_type") = "Dorian"
    /\ Field("suggested_key") = <<"D">>
    /\ Field("camelot_notation") = ReturnValue(<<"4", "A">>)
    /\ DictKeys(Field("compatible_camelot_keys")) =
           { <<"4", "B">>, <<"3", "A">>, <<"5", "A">>, <<"5", "B">> }

(***************************************************************************)
(* C20 as stated: get_western_equivalent never raises, and for a raga with  *)
(* no thaat entry and for a raga whose thaat is Marwa, Purvi or Todi it     *)
(* returns a 'no equivalent' message instead of a scale type, a suggested   *)
(* key and a Camelot position.                                              *)
(***************************************************************************)
C20_NoEquivalentMessageForUnmappedThaats ==
    Done("get_western_equivalent") =>
        /\ ret.kind = "dict"
        /\ (\/ call.raga_name \notin ThaatRagas
            \/ DictGet(raga_thaats, call.raga_name) \in NoEquivalentThaats) =>
               /\ DictHas(ret.items, "message")
               /\ ~DictHas(ret.items, "scale_type")
               /\ ~DictHas(ret.items, "suggested_key")
               /\ ~DictHas(ret.items, "camelot_notation")

(***************************************************************************)
(* C20 amended: get_western_equivalent never raises.  For a raga with no    *)
(* thaat entry it returns only the message 'No thaat information available  *)
(* for <raga>'.  Every thaat of the raga table has a Western mapping, so     *)
(* every raga with a thaat entry gets a full result and no message; for a   *)
(* raga whose thaat is Marwa, Purvi or Todi the scale type of that result   *)
(* is the text '<thaat> (no Western equivalent)', and the result carries a  *)
(* suggested key and a Camelot position like any other.                     *)
(***************************************************************************)
C20_NoThaatMessageOtherwiseFullResult ==
    Done("get_western_equivalent") =>
        /\ ret.kind = "dict"
        /\ call.raga_name \notin ThaatRagas =>
              ret.items = << <<"message",
                               "No thaat information available for " \o call.raga_name>> >>
        /\ call.raga_name \in ThaatRagas =>
              LET thaat == DictGet(raga_thaats, call.raga_name) IN
              /\ ~DictHas(ret.items, "message")
              /\ DictHas(ret.items, "scale_type")
              /\ DictHas(ret.items, "suggested_key")
              /\ DictHas(ret.items, "camelot_notation")
              /\ Field("camelot_notation").kind = "value"
              /\ thaat \in NoEquivalentThaats =>
                    /\ Field("scale_type") = thaat \o " (no Western equivalent)"
                    /\ Field("suggested_key") = (IF thaat = "Todi" THEN <<"D">> ELSE <<"C">>)
                    /\ Field("camelot_notation").value =
                           (IF thaat = "Todi" THEN <<"7", "B">> ELSE <<"5", "B">>)

C20_Witness ==
    /\ Done("get_western_equivalent")
    /\ call.raga_name = "Lalit"
    /\ ret.kind = "dict"
    /\ Field("thaat") = "Marwa"
    /\ Field("scale_type") = "Marwa (no Western equivalent)"
    /\ Field("suggested_key") = <<"C">>
    /\ Field("camelot_notation") = ReturnValue(<<"5", "B">>)

(***************************************************************************)
(* C21: the interval vector of Ionian, Dorian, Phrygian, Lydian,            *)
(* Mixolydian, Aeolian and Locrian is the major-scale vector                *)
(* [0,2,4,5,7,9,11] rotated to start at scale degree 1..7 respectively and  *)
(* re-based to 0 modulo 12; each vector starts at 0, increases strictly     *)
(* and has 7 entries below 12.                                              *)
(***************************************************************************)
MajorVector == <<0, 2, 4, 5, 7, 9, 11>>

ModeDegree(mode) ==
    CASE mode = "Ionian" -> 1
      [] mode = "Dorian" -> 2
      [] mode = "Phrygian" -> 3
      [] mode = "Lydian" -> 4
      [] mode = "Mixolydian" -> 5
      [] mode = "Aeolian" -> 6
      [] mode = "Locrian" -> 7

\* the major vector from degree k on, each entry taken relative to degree k
Rotation(k) ==
    [i \in 1 .. 7 |-> (MajorVector[((k + i - 2) % 7) + 1] + 12 - MajorVector[k]) % 12]

C21_ModesAreRotationsOfMajor ==
    (Done("get_mode_intervals") /\ call.mode_name \in ModeNames) =>
        /\ ret.kind = "value"
        /\ ret.value = Rotation(ModeDegree(call.mode_name))
        /\ Len(ret.value) = 7
        /\ ret.value[1] = 0
        /\ \A i \in 1 .. 6 : ret.value[i] < ret.value[i + 1]
        /\ \A i \in 1 .. 7 : ret.value[i] < 12

C21_Witness ==
    /\ Done("get_mode_intervals")
    /\ call.mode_name = "Locrian"
    /\ ret.kind = "value"
    /\ ret.value = <<0, 1, 3, 5, 6, 8, 10>>

(***************************************************************************)
(* C22: the rasa and raga lookups are consistent joins over one table:      *)
(* rasa r is in get_rasa_from_raga(g) exactly when raga g is in             *)
(* get_raga_by_rasa(r); get_rasa_from_raga returns all matching rasas in    *)
(* table order and the empty list, without error, for a raga of no list;    *)
(* get_raga_by_rasa fails with an error for an unknown rasa.                *)
(***************************************************************************)
\* the position of a rasa in the order in which the table declares the rasas
RasaPosition(rasa) == ListIndex(rasa_ragas_keys, rasa)

\* raga g is in the list that get_raga_by_rasa returns for rasa r
InRagasOf(r, g) ==
    /\ get_raga_by_rasa(r).kind = "value"
    /\ InList(get_raga_by_rasa(r).value, g)

C22_RasaRagaLookupsAreJoins ==
    /\ Done("get_rasa_from_raga") =>
          /\ ret.kind = "value"
          /\ \A r \in RasaNames : InList(ret.value, r) <=> InRagasOf(r, call.raga)
          /\ \A i \in 1 .. Len(ret.value) : ret.value[i] \in RasaNames
          /\ \A i \in 1 .. Len(ret.value) - 1 :
                RasaPosition(ret.value[i]) < RasaPosition(ret.value[i + 1])
          /\ (\A r \in RasaNames : ~InRagasOf(r, call.raga)) => ret.value = <<>>
    /\ Done("get_raga_by_rasa") =>
          /\ call.rasa \notin RasaNames => ret.kind = "ValueError"
          /\ call.rasa \in RasaNames =>
                /\ ret.kind = "value"
                /\ \A i \in 1 .. Len(ret.value) :
                      InList(get_rasa_from_raga(ret.value[i]), call.rasa)
                /\ \A g \in RasaRagaArgs :
                      InList(get_rasa_from_raga(g), call.rasa) => InList(ret.value, g)

C22_Witness ==
    /\ Done("get_rasa_from_raga")
    /\ call.raga = "Shree"
    /\ ret = ReturnValue(<<"Raudra", "Bhayaanaka">>)

ListsNames(names) ==
    /\ ret.kind = "ValueError"
    /\ "listed" \in DOMAIN ret
    /\ ret.listed = names

ScaleTypeNames ==
    {"major", "minor", "minor_harmonic", "minor_melodic", "chromatic",
     "pentatonic_major", "pentatonic_minor", "blues"}

C24_UnknownNameErrorsListValidNames ==
    /\ (Done("get_frequency") /\ call.note \notin Spellings) =>
           ListsNames({Text(n) : n \in Spellings})
    /\ (Done("get_scale") /\ call.scale_type \notin ScaleTypeNames) =>
           ListsNames(ScaleTypeNames)
    /\ (Done("get_raga") /\ call.raga_name \notin KnownRagas) =>
           ListsNames(KnownRagas)
    /\ (Done("get_compatible_modes") /\ call.mode_name \notin ModeNames) =>
           ListsNames(ModeNames)
    /\ (Done("get_compatible_rasas") /\ call.rasa \notin RasaNames) =>
           ListsNames(RasaNames)
    /\ (/\ Done("suggest_transition_path")
        /\ (call.start \notin NodesOf(call.graph) \/ call.end \notin NodesOf(call.graph))) =>
           ListsNames(NodesOf(call.graph))

(***************************************************************************)
(* C25 as stated: get_camelot_notation and get_scale_with_camelot answer a  *)
(* key that does not normalize to one of the 12 pitch classes, or a scale   *)
(* type other than major and minor, with an error, never with None or with  *)
(* the position of a substituted default mode.                              *)
(***************************************************************************)
\* the key without the minor suffix get_camelot_notation strips
KeyRoot(key) == IF EndsWithM(key) THEN DropLast(key) ELSE key

\* the result is an exception
IsError(r) == r.kind \notin {"value", "None", "dict", "tuple", "path", "pending"}

C25_CamelotContractViolationsRaise ==
    /\ (/\ Done("get_camelot_notation")
        /\ (KeyRoot(call.key) \notin Spellings \/ call.scale_type \notin {"major", "minor"})) =>
           IsError(ret)
    /\ (/\ Done("get_scale_with_camelot")
        /\ (call.root_note \notin Spellings \/ call.scale_type \notin {"major", "minor"})) =>
           IsError(ret)

(***************************************************************************)
(* C25 amended: get_camelot_notation never fails.  It returns None exactly  *)
(* when the key, without a minor suffix, is none of the 17 note spellings,  *)
(* and otherwise the position of the key in minor when the key carries the  *)
(* suffix or the scale type is minor, and in major for every other scale    *)
(* type.  get_scale_with_camelot fails exactly when get_scale fails, for an *)
(* unknown scale type or a root other than the 12 canonical names, and      *)
(* otherwise returns the scale with the position of the root in minor for   *)
(* scale type minor and in major for every other scale type, never None,    *)
(* and the four compatible keys of that position.                           *)
(***************************************************************************)
\* the mode whose position the code looks up for a key and a scale type
LookedUpMode(key, scale_type) ==
    IF EndsWithM(key) \/ scale_type = "minor" THEN "minor" ELSE "major"

C25_CamelotNeverFailsAndDefaultsToMajor ==
    /\ Done("get_camelot_notation") =>
          IF KeyRoot(call.key) \in Spellings
             THEN /\ ret.kind = "value"
                  /\ ret.value \in WheelPositions
                  /\ KeyOfPosition(ret.value) =
                         <<PitchClass(KeyRoot(call.key)),
                           LookedUpMode(call.key, call.scale_type)>>
             ELSE ret = ReturnNone
    /\ Done("get_scale_with_camelot") =>
          IF call.scale_type \in DOMAIN PatternLength /\ call.root_note \in CanonicalNames
             THEN /\ ret.kind = "dict"
                  /\ KeyList(ret.items) =
                         <<"frequencies", "camelot_notation", "compatible_keys">>
                  /\ ReturnDict(Field("frequencies")) =
                         get_scale(call.root_note, call.octave, call.scale_type)
                  /\ Field("camelot_notation").kind = "value"
                  /\ KeyOfPosition(Field("camelot_notation").value) =
                         <<PitchClass(call.root_note),
                           LookedUpMode(call.root_note, call.scale_type)>>
                  /\ Len(Field("compatible_keys")) = 4
             ELSE /\ ret.kind = "ValueError"
                  /\ ret = get_scale(call.root_note, call.octave, call.scale_type)

\* a scale type that is neither major nor minor got the position of C major
C25_Witness ==
    /\ Done("get_scale_with_camelot")
    /\ call.root_note = <<"C">>
    /\ call.scale_type = "blues"
    /\ ret.kind = "dict"
    /\ Field("camelot_notation") = ReturnValue(<<"5", "B">>)

(***************************************************************************)
(* C26: for every raga with a swara list (Bhairav, Yaman, Bhairavi, Todi,   *)
(* Kafi), every canonical root and every octave,                            *)
(* compare_raga_to_western_scale returns without error, its western_scale   *)
(* is '<root> <scale type>', and raga_frequencies and western_frequencies   *)
(* are non-empty mappings of positive frequencies.                          *)
(***************************************************************************)
\* the scale name the tables give a raga through its thaat
ScaleNameOf(raga) == thaat_western_map[DictGet(raga_thaats, raga)]

C26_ComparisonSucceedsForEveryRoot ==
    (/\ Done("compare_raga_to_western_scale")
     /\ call.raga_name \in KnownRagas
     /\ call.western_root \in CanonicalNames) =>
        /\ ret.kind = "dict"
        /\ Field("western_scale") =
               Text(call.western_root) \o " " \o ScaleNameOf(call.raga_name)
        /\ Field("raga_frequencies") # <<>>
        /\ \A i \in 1 .. Len(Field("raga_frequencies")) :
               /\ Field("raga_frequencies")[i][2].num > 0
               /\ Field("raga_frequencies")[i][2].den > 0
        /\ Field("western_frequencies") # <<>>
        /\ \A i \in 1 .. Len(Field("western_frequencies")) :
               Field("western_frequencies")[i][2].reference > 0

(***************************************************************************)
(* C28: compare_raga_to_western_scale with root C returns as                *)
(* western_frequencies the 7 notes of the scale it names: for Lydian        *)
(* (Yaman) the major scale with F replaced by F#, for Dorian (Kafi) the     *)
(* minor scale with the 6th raised to A natural and the minor 7th (A#)      *)
(* kept, for Phrygian (Bhairavi) the pitch classes of the Phrygian vector.  *)
(***************************************************************************)
\* the note name at the head of a label such as F#4 or C5
NoteOfLabel(label) ==
    IF Len(label) >= 2 /\ label[2] \in {"#", "b"} THEN SubSeq(label, 1, 2)
    ELSE SubSeq(label, 1, 1)

\* the pitch classes of the notes of a mapping from labels to frequencies
PitchClassesOf(frequencies) ==
    {PitchClass(NoteOfLabel(frequencies[i][1])) : i \in 1 .. Len(frequencies)}

\* the pitch classes of a mode on the root C
ModeOnC(mode) == {modes[mode][i] : i \in 1 .. Len(modes[mode])}

C28_WesternFrequenciesAreTheNamedMode ==
    (/\ Done("compare_raga_to_western_scale")
     /\ call.western_root = <<"C">>
     /\ call.raga_name \in {"Yaman", "Kafi", "Bhairavi"}) =>
        /\ ret.kind = "dict"
        /\ Field("western_scale") = "C " \o ScaleNameOf(call.raga_name)
        /\ ScaleNameOf(call.raga_name) =
               CASE call.raga_name = "Yaman" -> "Lydian"
                 [] call.raga_name = "Kafi" -> "Dorian"
                 [] call.raga_name = "Bhairavi" -> "Phrygian"
        /\ Len(Field("western_frequencies")) = 7
        /\ PitchClassesOf(Field("western_frequencies")) = ModeOnC(ScaleNameOf(call.raga_name))

(***************************************************************************)
(* C27: in suggest_transition_path every node is enqueued at most once,     *)
(* being marked visited when it is enqueued; the queue is first-in          *)
(* first-out and its paths never get shorter towards the back; the search   *)
(* returns at the first dequeue of a path whose last node is the end; and   *)
(* the loop ends after at most NumNodes dequeues, whatever max_steps is.    *)
(***************************************************************************)
Searching == pc = "loop"

LastNode(path) == path[Len(path)]

\* the paths taken from the queue so far: every visited node was enqueued
\* once, and those no longer queued have been dequeued
Dequeues == Cardinality(visited) - Len(queue)

QueueInOrder ==
    /\ \A i \in 1 .. Len(queue) : LastNode(queue[i]) \in visited
    /\ \A i, j \in 1 .. Len(queue) :
           i < j => /\ LastNode(queue[i]) # LastNode(queue[j])
                    /\ Len(queue[i]) <= Len(queue[j])

\* one pass of the while loop
LoopPass ==
    IF queue = <<>>
       THEN pc' = "done" /\ ret' = ReturnNone
    ELSE IF LastNode(Head(queue)) = call.end
       THEN pc' = "done" /\ ret' = ReturnPath(Head(queue))
    ELSE /\ pc' = "loop"
         /\ Len(queue') >= Len(queue) - 1
         /\ SubSeq(queue', 1, Len(queue) - 1) = Tail(queue)
         /\ visited \subseteq visited'
         /\ {LastNode(queue'[i]) : i \in Len(queue) .. Len(queue')} = visited' \ visited
         /\ \A i \in Len(queue) .. Len(queue') :
                /\ queue'[i] = Append(Head(queue), LastNode(queue'[i]))
                /\ IsEdge(call.graph, LastNode(Head(queue)), LastNode(queue'[i]))
         /\ Cardinality(visited') - Len(queue') = Dequeues + 1

C27_SearchEnqueuesEachNodeOnce ==
    /\ [](Searching => QueueInOrder)
    /\ []((Searching \/ SearchDone) =>
              /\ visited \subseteq DOMAIN compatible_transitions(call.graph)
              /\ Dequeues \in 0 .. NumNodes(call.graph))
    /\ [][Searching => LoopPass]_vars

\* a search that max_steps does not cut short has dequeued three paths and
\* still holds several
C27_Witness ==
    /\ Searching
    /\ call.max_steps >= 4
    /\ Dequeues = 3
    /\ Len(queue) >= 2
    /\ Cardinality(visited) >= 5

(***************************************************************************)
(* C29: both graphs are strongly connected, and every ordered pair of       *)
(* distinct nodes is joined by a directed path of at most 3 edges; hence    *)
(* suggest_transition_path with max_steps >= 4 returns a path for every     *)
(* pair of valid nodes.                                                     *)
(***************************************************************************)
C29_EveryPairWithinThreeEdges ==
    (ValidSearch /\ call.max_steps >= 4) =>
        /\ \A a, b \in NodesOf(call.graph) :
               /\ Reachable(call.graph, a, b)
               /\ b \in ReachWithin(call.graph, a, 3)
        /\ ret.kind = "path"
        /\ ret.path[1] = call.start
        /\ ret.path[Len(ret.path)] = call.end
        /\ Len(ret.path) <= 4
        /\ \A i \in 1 .. Len(ret.path) - 1 :
               IsEdge(call.graph, ret.path[i], ret.path[i + 1])

\* the search has returned a path of three edges, the most any pair needs
C29_Witness ==
    /\ SearchDone
    /\ call.graph = "WesternModes"
    /\ call.start = "Ionian"
    /\ call.end = "Locrian"
    /\ call.max_steps = 4
    /\ ret = ReturnPath(<<"Ionian", "Dorian", "Phrygian", "Locrian">>)

(***************************************************************************)
(* C30: the graph tables are closed and consistent: every node named in an  *)
(* adjacency list of the mode graph or the rasa graph is itself a node      *)
(* with metadata, an energy level in 1..10 and an adjacency list of its     *)
(* own; no node lists itself or lists a neighbour twice; every rasa named   *)
(* in mode_to_rasa_map is a rasa of the rasa graph.  Hence the neighbour    *)
(* and path operations on valid nodes never fail with a missing key, at     *)
(* any step.                                                                *)
(***************************************************************************)
\* the table that holds the metadata of the nodes of a graph
Metadata(g) == IF g = "WesternModes" THEN modal_emotions ELSE rasas

\* the nodes that carry an energy level
EnergyNodes(g) ==
    IF g = "WesternModes" THEN DOMAIN modal_emotions ELSE DOMAIN energy_levels

GraphClosed(g) ==
    \A node \in DOMAIN compatible_transitions(g) :
        LET neighbours == compatible_transitions(g)[node]
        IN  \A i \in 1 .. Len(neighbours) :
                /\ neighbours[i] \in DOMAIN compatible_transitions(g)
                /\ neighbours[i] \in DOMAIN Metadata(g)
                /\ neighbours[i] \in EnergyNodes(g)
                /\ Energy(g, neighbours[i]) \in 1 .. 10
                /\ neighbours[i] # node
                /\ \A j \in 1 .. Len(neighbours) : j # i => neighbours[j] # neighbours[i]

C30_GraphTablesAreClosed ==
    /\ (Done("get_compatible_modes") /\ call.mode_name \in ModeNames) =>
           GraphClosed("WesternModes") /\ ret.kind = "dict"
    /\ (Done("get_compatible_rasas") /\ call.rasa \in RasaNames) =>
           GraphClosed("NavarasaMap") /\ ret.kind = "dict"
    /\ (Done("get_corresponding_rasa") /\ call.mode_name \in ModeNames) =>
           /\ ret.kind = "value"
           /\ \A i \in 1 .. Len(ret.value) :
                  /\ ret.value[i] \in DOMAIN rasas_compatible_transitions
                  /\ ret.value[i] \in DOMAIN rasas
    /\ Searching =>
           \A i \in 1 .. Len(queue) :
               LastNode(queue[i]) \in DOMAIN compatible_transitions(call.graph)
    /\ ValidSearch => GraphClosed(call.graph) /\ ret.kind \in {"path", "None"}

\* a neighbour query on the node with the longest list has answered for all
\* five neighbours
C30_Witness ==
    /\ Done("get_compatible_rasas")
    /\ call.rasa = "Karuna"
    /\ ret.kind = "dict"
    /\ KeyList(ret.items) = <<"Saantha", "Sringara", "Bhayaanaka", "Beebhatsa", "Veera">>

=============================================================================
